---- MODULE Spec2Model ----
(***************************************************************************)
(* The write path of the coordinator (src/adapter/src/coord/appends.rs):   *)
(* pending writes, the write lock, the local write clock, the internal     *)
(* command channel, group commits, builtin table updates and the advance   *)
(* of local inputs, against a storage controller that records appends.     *)
(***************************************************************************)
EXTENDS Integers, Sequences, FiniteSets, TLC

\* ------------------------------------------------------------------ bounds
NumSessions == 2
NumIds == 2
\* how many requests and outside events a history holds: write plans, submitted
\* transactions, DDL statements, timeline ticks and wall clock changes
MaxEvents == 3

\* the retry cap of try_group_commit, in milliseconds
RetryCapMs == 1000

Sessions == 1..NumSessions
\* user tables; SysId is a builtin (system) table, never dropped
UserIds == 1..NumIds
SysId == 0
AllIds == UserIds \cup {SysId}
Rows == {1, 2}
\* the diffs of a builtin update and the longest list of them given to
\* send_builtin_table_updates on its own
Diffs == {1, -1}
MaxBuiltinLen == 3
\* the most WriteOps in a transaction given to group_commit on its own
MaxWriteOps == 2
\* the most operands in a list given to try_coalesce_types on its own
MaxOperands == 3
\* wall clock readings and the values the local clock may start from
NowValues == {100, 10000000}
ClockStarts == {500}

Min(a, b) == IF a <= b THEN a ELSE b
Max(a, b) == IF a >= b THEN a ELSE b
EmptyMap == [k \in {} |-> 0]
SeqsUpTo(S, n) == UNION {[1..k -> S] : k \in 0..n}

VARIABLES
  catalog,                \* ids with a catalog entry
  pending_writes,         \* Coordinator::pending_writes
  write_lock,             \* the mutex behind Coordinator::write_lock: TRUE = locked
  write_lock_wait_group,  \* Coordinator::write_lock_wait_group
  lock_waiters,           \* background defer_write tasks blocked in lock_owned()
  internal_cmd,           \* messages in flight on internal_cmd_tx
  retry_tasks,            \* sleeping "group_commit" tasks, each with its delay in ms
  clock,                  \* the local write timeline: next timestamp handed out
  now,                    \* the wall clock, (catalog.config().now)()
  write_frontier,         \* storage: collection(id).write_frontier
  storage_appends,        \* every storage append call, in issue order
  commits,                \* executions of group_commit / send_builtin_table_updates
  session_lock,           \* session.has_write_lock()
  session_state,          \* where each session is
  submitted,              \* every PendingWriteTxn ever passed to submit_write
  responses,              \* txns whose client_transmitter.send was called, in order
  halted,                 \* the process panicked (a fatal expect / unwrap)
  nevents,                \* requests and outside events so far
  dataflows,              \* Planner::dataflows: the type of each named dataflow
  dataflow_meta,          \* Planner::dataflows: each dataflow's kind and the names it uses
  plan_call,              \* the planner function called and its arguments
  plan_results            \* what each run of that call returned, in order

\* the planner's part of the state
planVars == <<dataflows, dataflow_meta, plan_call, plan_results>>

vars == <<catalog, pending_writes, write_lock, write_lock_wait_group, lock_waiters,
          internal_cmd, retry_tasks, clock, now, write_frontier, storage_appends,
          commits, session_lock, session_state, submitted, responses, halted, nevents,
          dataflows, dataflow_meta, plan_call, plan_results>>

\* ------------------------------------------------------------------ messages
GroupCommitMsg == [type |-> "GroupCommit", advance_to |-> 0, ids |-> {}]
WriteLockGrantMsg == [type |-> "WriteLockGrant", advance_to |-> 0, ids |-> {}]
AdvanceLocalInput(advance_to, ids) ==
  [type |-> "AdvanceLocalInput", advance_to |-> advance_to, ids |-> ids]

DeferredGroupCommit == [kind |-> "GroupCommit", session |-> 0]
DeferredPlan(s) == [kind |-> "Plan", session |-> s]

\* ------------------------------------------------------------------ inputs
\* a WriteOp {id, rows}; rows is a sequence of (row, diff)
WriteOp(id, row) == [id |-> id, rows |-> <<[row |-> row, diff |-> 1]>>]
\* the transactions session s may submit: one WriteOp to the first table, or
\* one WriteOp to every table in turn; the row it writes is its own number
WriteChoices(s) ==
  {<<WriteOp(1, s)>>, [k \in 1..NumIds |-> WriteOp(k, s)]}
BuiltinTableUpdate(row, diff) == [id |-> SysId, row |-> row, diff |-> diff]
\* the DDL statements: what each drops and the builtin updates it produces
DdlChoices ==
  {[dropped |-> {}, updates |-> <<BuiltinTableUpdate(1, 1), BuiltinTableUpdate(1, -1)>>],
   [dropped |-> {}, updates |-> <<BuiltinTableUpdate(1, 1), BuiltinTableUpdate(1, -1),
                                  BuiltinTableUpdate(2, 1)>>]}
    \cup {[dropped |-> {id}, updates |-> <<BuiltinTableUpdate(1, -1)>>] : id \in UserIds}

\* ------------------------------------------------------------------ timeline
\* peek_local_ts(): the next timestamp the clock would hand out; no advance
peek_local_ts(c) == c

\* get_and_step_local_write_ts(): hands out (timestamp, advance_to) and moves
\* the clock to advance_to
get_and_step_local_write_ts(c) ==
  [timestamp |-> c, advance_to |-> c + 1, clock |-> c + 1]

\* ------------------------------------------------------------------ storage
\* append(): a batch is well formed when every update lies in
\* [write_frontier, advance_to) of its collection
AppendValid(payload, frontier) ==
  \A id \in DOMAIN payload :
    \A k \in DOMAIN payload[id].updates :
      /\ frontier[id] <= payload[id].updates[k].timestamp
      /\ payload[id].updates[k].timestamp < payload[id].advance_to

\* an accepted append installs advance_to as the collection's write frontier
FrontierAfter(payload, frontier) ==
  [id \in AllIds |-> IF id \in DOMAIN payload THEN payload[id].advance_to
                     ELSE frontier[id]]

\* ------------------------------------------------------------------ try_group_commit
\* min(timestamp.saturating_sub(now), 1_000)
remaining_ms_uncapped(timestamp, n) == Max(timestamp - n, 0)
remaining_ms(timestamp, n) == Min(Max(timestamp - n, 0), RetryCapMs)

has_write_lock(pending_write) == pending_write.write_lock_guard

\* which arm of try_group_commit runs
try_group_commit_branch_no_defer(pw, timestamp, n, locked) ==
  IF pw = <<>> THEN "return"
  ELSE IF timestamp > n THEN "sleep"
  ELSE IF \E k \in DOMAIN pw : has_write_lock(pw[k]) THEN "carried"
  ELSE "acquire"
try_group_commit_branch_no_return(pw, timestamp, n, locked) ==
  IF timestamp > n THEN "sleep"
  ELSE IF \E k \in DOMAIN pw : has_write_lock(pw[k]) THEN "carried"
  ELSE IF ~locked THEN "acquire"
  ELSE "defer"
try_group_commit_branch_no_deferral(pw, timestamp, n, locked) ==
  IF pw = <<>> THEN "return"
  ELSE IF timestamp > n THEN "sleep"
  ELSE IF \E k \in DOMAIN pw : has_write_lock(pw[k]) THEN "carried"
  ELSE IF ~locked THEN "acquire"
  ELSE "return"
try_group_commit_branch_guard_ignored(pw, timestamp, n, locked) ==
  IF pw = <<>> THEN "return"
  ELSE IF timestamp > n THEN "sleep"
  ELSE IF ~locked THEN "acquire"
  ELSE "defer"
try_group_commit_branch(pw, timestamp, n, locked) ==
  IF pw = <<>> THEN "return"
  ELSE IF timestamp > n THEN "sleep"
  ELSE IF \E k \in DOMAIN pw : has_write_lock(pw[k]) THEN "carried"
  ELSE IF ~locked THEN "acquire"
  ELSE "defer"

\* ------------------------------------------------------------------ group_commit
\* one execution of group_commit or send_builtin_table_updates
NewCommit(kind, guard, input) ==
  [kind |-> kind, phase |-> "step", timestamp |-> 0, advance_to |-> 0,
   txns |-> <<>>, payload |-> EmptyMap, guard |-> guard, awaited |-> TRUE,
   input |-> input, ack |-> "none", steps |-> 0]

\* self.group_commit().await: the caller is suspended until the commit ends
group_commit_spawned(guard) ==
  [NewCommit("group_commit", guard, <<>>) EXCEPT !.awaited = FALSE]
group_commit_call(guard) == NewCommit("group_commit", guard, <<>>)

\* the clock step of group_commit
write_ts_without_step(c) == [timestamp |-> c, advance_to |-> c + 1, clock |-> c]
group_commit_write_ts(c) == get_and_step_local_write_ts(c)

\* rows.into_iter().map(|(row, diff)| Update { row, diff, timestamp })
UpdatesShifted(rows, timestamp) ==
  [k \in DOMAIN rows |->
     [row |-> rows[k].row, diff |-> rows[k].diff, timestamp |-> timestamp + k]]
Updates(rows, timestamp) ==
  [k \in DOMAIN rows |->
     [row |-> rows[k].row, diff |-> rows[k].diff, timestamp |-> timestamp]]

\* self.catalog.try_get_entry(&id).is_some()
entry_always_present(cat, id) == TRUE
try_get_entry_is_some(cat, id) == id \in cat

ExtendFront(appends, id, updates) ==
  IF id \in DOMAIN appends THEN [appends EXCEPT ![id] = updates \o @]
  ELSE appends @@ (id :> updates)
\* appends.entry(id).or_default().extend(updates)
Extend(appends, id, updates) ==
  IF id \in DOMAIN appends THEN [appends EXCEPT ![id] = @ \o updates]
  ELSE appends @@ (id :> updates)

\* for WriteOp { id, rows } in writes
RECURSIVE AddWrites(_, _, _, _)
AddWrites(appends, writes, cat, timestamp) ==
  IF writes = <<>> THEN appends
  ELSE LET w == Head(writes) IN
       AddWrites(IF try_get_entry_is_some(cat, w.id)
                 THEN Extend(appends, w.id, Updates(w.rows, timestamp))
                 ELSE appends,
                 Tail(writes), cat, timestamp)

\* for PendingWriteTxn { .. } in self.pending_writes.drain(..)
RECURSIVE AddPending(_, _, _, _)
AddPending(appends, pw, cat, timestamp) ==
  IF pw = <<>> THEN appends
  ELSE AddPending(AddWrites(appends, Head(pw).writes, cat, timestamp),
                  Tail(pw), cat, timestamp)

WithAdvanceToTimestamp(appends, advance_to) ==
  [id \in DOMAIN appends |-> [updates |-> appends[id], advance_to |-> advance_to - 1]]
\* appends.into_iter().map(|(id, updates)| (id, updates, advance_to))
WithAdvanceTo(appends, advance_to) ==
  [id \in DOMAIN appends |-> [updates |-> appends[id], advance_to |-> advance_to]]

\* what pending_writes holds after the drain
not_drained(pw) == pw
drain(pw) == <<>>

\* `write_lock_guard: _` binds nothing: the guard stays in the drained value
\* and is dropped at the end of its loop iteration, before the append
drained_guard_dropped(pw) == \E k \in DOMAIN pw : has_write_lock(pw[k])

\* the responses sent after the acknowledgement was unwrapped
send_responses_unchecked(sent, txns, ack) == sent \o txns
send_responses(sent, txns, ack) == IF ack = "ok" THEN sent \o txns ELSE sent

\* ------------------------------------------------------------------ send_builtin_table_updates
\* appends.entry(u.id).or_default().push((u.row, u.diff))
RECURSIVE Bucket(_, _)
Bucket(updates, id) ==
  IF updates = <<>> THEN <<>>
  ELSE LET u == Head(updates) IN
       (IF u.id = id THEN <<[row |-> u.row, diff |-> u.diff]>> ELSE <<>>)
         \o Bucket(Tail(updates), id)

RECURSIVE SumDiff(_, _)
SumDiff(updates, row) ==
  IF updates = <<>> THEN 0
  ELSE (IF Head(updates).row = row THEN Head(updates).diff ELSE 0)
         + SumDiff(Tail(updates), row)

RECURSIVE SortedSeq(_)
SortedSeq(S) ==
  IF S = {} THEN <<>>
  ELSE LET m == CHOOSE x \in S : \A y \in S : x <= y IN <<m>> \o SortedSeq(S \ {m})

consolidate_keeps_zero(updates) ==
  LET kept == SortedSeq({updates[k].row : k \in DOMAIN updates})
  IN [k \in DOMAIN kept |-> [row |-> kept[k], diff |-> SumDiff(updates, kept[k])]]
\* differential_dataflow::consolidation::consolidate: sort by row, sum the
\* diffs of equal rows, drop the rows whose sum is zero
consolidate(updates) ==
  LET rows == {updates[k].row : k \in DOMAIN updates}
      kept == SortedSeq({r \in rows : SumDiff(updates, r) # 0})
  IN [k \in DOMAIN kept |-> [row |-> kept[k], diff |-> SumDiff(updates, kept[k])]]

\* the payload send_builtin_table_updates builds from its input
builtin_appends(updates, timestamp, advance_to) ==
  LET ids == {updates[k].id : k \in DOMAIN updates}
      retained == {id \in ids : consolidate(Bucket(updates, id)) # <<>>}
  IN [id \in retained |->
        [updates |-> [k \in DOMAIN consolidate(Bucket(updates, id)) |->
                        [row |-> consolidate(Bucket(updates, id))[k].row,
                         diff |-> consolidate(Bucket(updates, id))[k].diff,
                         timestamp |-> timestamp]],
         advance_to |-> advance_to]]

\* ------------------------------------------------------------------ advance_local_inputs
\* the filter_map of advance_local_inputs: keep id
advance_keeps_unfiltered(id, cat, frontier, advance_to) == id \in cat
advance_keeps_dropped(id, cat, frontier, advance_to) == frontier[id] < advance_to
advance_keeps(id, cat, frontier, advance_to) ==
  ~(id \notin cat \/ ~(frontier[id] < advance_to))

advance_appends(ids, cat, frontier, advance_to) ==
  [id \in {i \in ids : advance_keeps(i, cat, frontier, advance_to)} |->
     [updates |-> <<>>, advance_to |-> advance_to]]

\* ------------------------------------------------------------------ the SQL planner: types
\* ColumnType { name, scalar_type, nullable }; NoName is the name None
NoName == ""
ColumnType(name, scalar_type, nullable) ==
  [name |-> name, scalar_type |-> scalar_type, nullable |-> nullable]

\* the catalog Planner::mock builds: the RelationType of each source
MockDataflows ==
  ("dual" :> <<ColumnType("x", "String", FALSE)>>)
    @@ ("a" :> <<ColumnType("x", "Int64", FALSE)>>)
    @@ ("b" :> <<ColumnType("y", "Int64", FALSE)>>)
    @@ ("c" :> <<ColumnType("x", "Int64", FALSE), ColumnType("y", "Int64", TRUE)>>)
    @@ ("d" :> <<ColumnType("y", "Int64", FALSE), ColumnType("x", "Int64", TRUE),
                 ColumnType("s", "String", FALSE)>>)
    @@ ("n" :> <<ColumnType("i", "Int32", FALSE), ColumnType("j", "Int32", TRUE),
                 ColumnType("k", "Int64", TRUE), ColumnType("f", "Float32", FALSE)>>)

\* every dataflow of Planner::mock is a Source with a Local connector
MockMeta == [name \in DOMAIN MockDataflows |-> [kind |-> "Table", uses |-> {}]]

NoCall == [fn |-> "none", arg |-> <<>>]
PlanVarsInit ==
  /\ dataflows = MockDataflows
  /\ dataflow_meta = MockMeta
  /\ plan_call = NoCall
  /\ plan_results = <<>>

\* Result<_, failure::Error>: Ok((expr, typ)) and Err(bail!(..))
Ok(expr, typ) == [ok |-> TRUE, expr |-> expr, typ |-> typ, err |-> ""]
Err(msg) == [ok |-> FALSE, expr |-> <<>>, typ |-> <<>>, err |-> msg]

\* ScalarExpr and the functions it calls
Column(i) == <<"Column", i>>
Literal(datum) == <<"Literal", datum>>
CallUnary(func, expr) == <<"CallUnary", func, expr>>
CallBinary(func, expr1, expr2) == <<"CallBinary", func, expr1, expr2>>
CallVariadic(func, exprs) == <<"CallVariadic", func, exprs>>
\* UnaryFunc::Cast<from>To<to>
Cast(from, to) == <<"Cast", from, to>>

\* ------------------------------------------------------------------ try_coalesce_types
scalar_type_prec(scalar_type) ==
  CASE scalar_type = "Null" -> 0
    [] scalar_type = "Int32" -> 1
    [] scalar_type = "Int64" -> 2
    [] scalar_type = "Float32" -> 3
    [] scalar_type = "Float64" -> 4
    [] OTHER -> 5

\* max_by_key(scalar_type_prec): the last of the operands of greatest key
max_scalar_type_first(exprs) == exprs[1].typ.scalar_type
max_scalar_type(exprs) ==
  LET prec(k) == scalar_type_prec(exprs[k].typ.scalar_type)
      last == CHOOSE k \in DOMAIN exprs :
                /\ \A j \in DOMAIN exprs : prec(j) <= prec(k)
                /\ \A j \in DOMAIN exprs : j > k => prec(j) < prec(k)
  IN exprs[last].typ.scalar_type

\* the match on (typ.scalar_type, max_scalar_type): a cast, nothing, or bail
coalesce_cast(from, to) ==
  CASE from = "Int32" /\ to = "Float32" -> [bail |-> FALSE, func |-> Cast(from, to)]
    [] from = "Int32" /\ to = "Float64" -> [bail |-> FALSE, func |-> Cast(from, to)]
    [] from = "Int64" /\ to = "Float32" -> [bail |-> FALSE, func |-> Cast(from, to)]
    [] from = "Int64" /\ to = "Float64" -> [bail |-> FALSE, func |-> Cast(from, to)]
    [] from = "Float32" /\ to = "Float64" -> [bail |-> FALSE, func |-> Cast(from, to)]
    [] OTHER -> IF from = "Null" \/ from = to
                THEN [bail |-> FALSE, func |-> <<>>]
                ELSE [bail |-> TRUE, func |-> <<>>]

\* try_coalesce_types(exprs, context); exprs is a list of [expr, typ]
try_coalesce_types(exprs, context) ==
  LET max == max_scalar_type(exprs)
      nullable == \E k \in DOMAIN exprs : exprs[k].typ.nullable
      casts == [k \in DOMAIN exprs |-> coalesce_cast(exprs[k].typ.scalar_type, max)]
  IN IF \E k \in DOMAIN exprs : casts[k].bail
     THEN Err("does not have uniform type")
     ELSE Ok([k \in DOMAIN exprs |->
                IF casts[k].func # <<>> THEN CallUnary(casts[k].func, exprs[k].expr)
                ELSE exprs[k].expr],
             ColumnType(NoName, max, nullable))

\* ------------------------------------------------------------------ plan_expr
\* SQLRelationExpr (plan.rs): a relation expression and its columns, each
\* with the table it came from
resolve_column(relation_expr, name) ==
  LET at == {k \in DOMAIN relation_expr.columns :
               relation_expr.columns[k].typ.name = name}
  IN IF Cardinality(at) = 1
     THEN LET k == CHOOSE k \in at : TRUE
          IN [ok |-> TRUE, pos |-> k - 1, typ |-> relation_expr.columns[k].typ]
     ELSE [ok |-> FALSE, pos |-> 0, typ |-> <<>>]

\* plan_literal(l): l is <<kind of Value, text>>
plan_literal(l) ==
  CASE l[1] = "Long" -> Ok(Literal(<<"Int64", l[2]>>), ColumnType(NoName, "Int64", FALSE))
    [] l[1] = "Double" -> Ok(Literal(<<"Float64", l[2]>>), ColumnType(NoName, "Float64", FALSE))
    [] l[1] = "SingleQuotedString" ->
         Ok(Literal(<<"String", l[2]>>), ColumnType(NoName, "String", FALSE))
    [] l[1] = "Boolean" ->
         Ok(Literal(<<IF l[2] = "true" THEN "True" ELSE "False">>),
            ColumnType(NoName, "Bool", FALSE))
    [] l[1] = "Null" -> Ok(Literal(<<"Null">>), ColumnType(NoName, "Null", TRUE))
    [] OTHER -> Err("literals are not supported")

\* the operators whose operands plan_binary_op coalesces first
CoalescedOps == {"Plus", "Minus", "Multiply", "Divide", "Lt", "LtEq", "Gt", "GtEq", "Eq", "NotEq"}
ComparisonOps == {"Lt", "LtEq", "Gt", "GtEq", "Eq", "NotEq"}
\* BinaryFunc::<Add|Sub|Mul|Div|Mod><type>
ArithFunc ==
  [Plus |-> "Add", Minus |-> "Sub", Multiply |-> "Mul", Divide |-> "Div", Modulus |-> "Mod"]
NumericTypes == {"Int32", "Int64", "Float32", "Float64"}

\* the match on op of plan_binary_op: (func, scalar_type), or bail
binary_func(op, ltype, rtype) ==
  CASE op \in {"And", "Or"} ->
         IF ltype.scalar_type \notin {"Bool", "Null"} \/ rtype.scalar_type \notin {"Bool", "Null"}
         THEN [bail |-> TRUE, func |-> <<>>, scalar_type |-> ""]
         ELSE [bail |-> FALSE, func |-> <<op>>, scalar_type |-> "Bool"]
    [] op \in DOMAIN ArithFunc ->
         IF ltype.scalar_type = rtype.scalar_type /\ ltype.scalar_type \in NumericTypes
         THEN [bail |-> FALSE, func |-> <<ArithFunc[op], ltype.scalar_type>>,
               scalar_type |-> ltype.scalar_type]
         ELSE [bail |-> TRUE, func |-> <<>>, scalar_type |-> ""]
    [] op \in ComparisonOps ->
         IF ltype.scalar_type # rtype.scalar_type
              /\ ltype.scalar_type # "Null" /\ rtype.scalar_type # "Null"
         THEN [bail |-> TRUE, func |-> <<>>, scalar_type |-> ""]
         ELSE [bail |-> FALSE, func |-> <<op>>, scalar_type |-> "Bool"]
    [] OTHER -> [bail |-> TRUE, func |-> <<>>, scalar_type |-> ""]

is_integer_div(func) == func = <<"Div", "Int32">> \/ func = <<"Div", "Int64">>

\* plan_expr(ctx, e, relation_expr) for an expression without aggregates; e is
\* <<"SQLIdentifier", name>>, <<"SQLValue", value>>, <<"SQLNested", e>>,
\* <<"SQLBinaryOp", op, left, right>>, <<"SQLBetween", expr, low, high, negated>>
\* or <<"SQLFunction", name, args>>
RECURSIVE plan_expr(_, _)
RECURSIVE plan_binary_op(_, _, _, _)
RECURSIVE plan_function(_, _, _)
RECURSIVE plan_between(_, _, _, _, _)
plan_binary_op(op, left, right, relation_expr) ==
  LET l == plan_expr(left, relation_expr)
      r == plan_expr(right, relation_expr)
  IN IF ~l.ok THEN l
     ELSE IF ~r.ok THEN r
     ELSE LET c == try_coalesce_types(<<[expr |-> l.expr, typ |-> l.typ],
                                        [expr |-> r.expr, typ |-> r.typ]>>, op)
              coalesced == op \in CoalescedOps
          IN IF coalesced /\ ~c.ok THEN c
             ELSE LET lexpr == IF coalesced THEN c.expr[1] ELSE l.expr
                      rexpr == IF coalesced THEN c.expr[2] ELSE r.expr
                      ltype == IF coalesced THEN c.typ ELSE l.typ
                      rtype == IF coalesced THEN c.typ ELSE r.typ
                      f == binary_func(op, ltype, rtype)
                  IN IF f.bail THEN Err("no overload")
                     ELSE Ok(CallBinary(f.func, lexpr, rexpr),
                             ColumnType(NoName, f.scalar_type,
                                        ltype.nullable \/ rtype.nullable
                                          \/ is_integer_div(f.func)))

BinaryOp(op, left, right) == <<"SQLBinaryOp", op, left, right>>
plan_between_strict(expr, low, high, negated, relation_expr) ==
  plan_expr(BinaryOp(IF negated THEN "Or" ELSE "And",
                     BinaryOp(IF negated THEN "LtEq" ELSE "Gt", expr, low),
                     BinaryOp(IF negated THEN "GtEq" ELSE "Lt", expr, high)),
            relation_expr)
\* plan_between(ctx, expr, low, high, negated, relation_expr)
plan_between(expr, low, high, negated, relation_expr) ==
  LET low_op == BinaryOp(IF negated THEN "Lt" ELSE "GtEq", expr, low)
      high_op == BinaryOp(IF negated THEN "Gt" ELSE "LtEq", expr, high)
      both == BinaryOp(IF negated THEN "Or" ELSE "And", low_op, high_op)
  IN plan_expr(both, relation_expr)

\* plan_function for coalesce(args..)
plan_function(name, args, relation_expr) ==
  IF name = "coalesce"
  THEN IF args = <<>> THEN Err("coalesce requires at least one argument")
       ELSE LET planned == [k \in DOMAIN args |-> plan_expr(args[k], relation_expr)]
            IN IF \E k \in DOMAIN args : ~planned[k].ok
               THEN planned[CHOOSE k \in DOMAIN args :
                              ~planned[k].ok /\ \A j \in 1..(k - 1) : planned[j].ok]
               ELSE LET c == try_coalesce_types(
                               [k \in DOMAIN args |->
                                  [expr |-> planned[k].expr, typ |-> planned[k].typ]],
                               "coalesce")
                    IN IF ~c.ok THEN c
                       ELSE Ok(CallVariadic("Coalesce", c.expr), c.typ)
  ELSE Err("unsupported function")

plan_expr(e, relation_expr) ==
  CASE e[1] = "SQLIdentifier" ->
         LET found == resolve_column(relation_expr, e[2])
         IN IF found.ok THEN Ok(Column(found.pos), found.typ) ELSE Err("no such column")
    [] e[1] = "SQLValue" -> plan_literal(e[2])
    [] e[1] = "SQLNested" -> plan_expr(e[2], relation_expr)
    [] e[1] = "SQLBinaryOp" -> plan_binary_op(e[2], e[3], e[4], relation_expr)
    [] e[1] = "SQLBetween" -> plan_between(e[2], e[3], e[4], e[5], relation_expr)
    [] e[1] = "SQLFunction" -> plan_function(e[2], e[3], relation_expr)
    [] OTHER -> Err("complicated expressions are not yet supported")

\* SQLRelationExpr::from_source(name, types)
from_source(name, types) ==
  [relation_expr |-> <<"Get", name>>,
   columns |-> [k \in DOMAIN types |-> [table |-> name, typ |-> types[k]]]]

\* ------------------------------------------------------------------ SQLRelationExpr (plan.rs)
RelOk(rel) == [ok |-> TRUE, rel |-> rel, err |-> ""]
RelErr(msg) == [ok |-> FALSE, rel |-> <<>>, err |-> msg]
\* the ? operator: the value of `then` on an Ok result, the error otherwise
Try(result, then(_), error(_)) == IF result.ok THEN then(result) ELSE error(result.err)

alias_table(rel, name) ==
  [rel EXCEPT !.columns = [k \in DOMAIN rel.columns |-> [rel.columns[k] EXCEPT !.table = name]]]
product(left, right) ==
  [relation_expr |-> <<"Join", left.relation_expr, right.relation_expr>>,
   columns |-> left.columns \o right.columns]
filter(rel, predicate) ==
  [rel EXCEPT !.relation_expr = <<"Filter", rel.relation_expr, predicate>>]
\* project(&key): key lists column positions, from 0
project(rel, key) ==
  [relation_expr |-> <<"Project", rel.relation_expr, key>>,
   columns |-> [k \in DOMAIN key |-> rel.columns[key[k] + 1]]]
\* select(outputs): outputs is a list of [expr, typ]
select(rel, outputs) ==
  [relation_expr |-> <<"Select", rel.relation_expr,
                       [k \in DOMAIN outputs |-> outputs[k].expr]>>,
   columns |-> [k \in DOMAIN outputs |-> [table |-> "", typ |-> outputs[k].typ]]]
distinct(rel) == [rel EXCEPT !.relation_expr = <<"Distinct", rel.relation_expr>>]
\* finish(): (RelationExpr, RelationType)
finish(rel) == Ok(rel.relation_expr, [k \in DOMAIN rel.columns |-> rel.columns[k].typ])
\* named_columns(): the (table, column) pairs of the columns that have a name
RECURSIVE named_columns_from(_, _)
named_columns_from(columns, k) ==
  IF k > Len(columns) THEN <<>>
  ELSE (IF columns[k].typ.name # NoName
        THEN <<[table |-> columns[k].table, name |-> columns[k].typ.name]>> ELSE <<>>)
         \o named_columns_from(columns, k + 1)
named_columns(rel) == named_columns_from(rel.columns, 1)
resolve_table_column(rel, table, name) ==
  LET at == {k \in DOMAIN rel.columns :
               rel.columns[k].table = table /\ rel.columns[k].typ.name = name}
  IN IF Cardinality(at) = 1
     THEN LET k == CHOOSE k \in at : TRUE
          IN [ok |-> TRUE, pos |-> k - 1, typ |-> rel.columns[k].typ]
     ELSE [ok |-> FALSE, pos |-> 0, typ |-> <<>>]
\* RelationExpr::let_(value, |name| body)
let_(name, value, body) == <<"Let", name, value, body>>
Local(name) == <<"GetLocal", name>>

\* ------------------------------------------------------------------ joins
\* HashSet<String>::into_iter(): the elements in the order the set's hasher
\* gives them; `order` lists the possible elements in that order
RECURSIVE into_iter(_, _)
into_iter(set, order) ==
  IF order = <<>> THEN <<>>
  ELSE (IF Head(order) \in set THEN <<Head(order)>> ELSE <<>>) \o into_iter(set, Tail(order))

\* the equalities of plan_using_constraint, folded into an AND chain
RECURSIVE and_chain(_, _)
and_chain(exprs, k) ==
  IF k = 0 THEN Literal(<<"True">>)
  ELSE CallBinary(<<"And">>, and_chain(exprs, k - 1), exprs[k])
RECURSIVE kept_right(_, _, _)
kept_right(n_left, n_right, dropped) ==
  IF n_right = 0 THEN <<>>
  ELSE kept_right(n_left, n_right - 1, dropped)
         \o (IF (n_right - 1) \in dropped THEN <<>> ELSE <<n_left + n_right - 1>>)

\* plan_using_constraint(column_names, left, right): (predicate, project_key)
plan_using_constraint(column_names, left, right) ==
  LET l(k) == resolve_column(left, column_names[k])
      r(k) == resolve_column(right, column_names[k])
  IN IF \E k \in DOMAIN column_names : ~l(k).ok \/ ~r(k).ok
     THEN [ok |-> FALSE, predicate |-> <<>>, project_key |-> <<>>, err |-> "no such column"]
     ELSE LET exprs == [k \in DOMAIN column_names |->
                          CallBinary(<<"Eq">>, Column(l(k).pos),
                                     Column(Len(left.columns) + r(k).pos))]
              dropped_columns == {r(k).pos : k \in DOMAIN column_names}
          IN [ok |-> TRUE, err |-> "",
              predicate |-> and_chain(exprs, Len(exprs)),
              project_key |-> [k \in 1..Len(left.columns) |-> k - 1]
                                \o kept_right(Len(left.columns), Len(right.columns),
                                              dropped_columns)]

\* plan_join_constraint(constraint, left, right); constraint is <<"On", expr>>,
\* <<"Using", column_names>> or <<"Natural">>
natural_names(left, right, hash_order) ==
  LET column_names == {right.columns[k].typ.name : k \in
                         {k \in DOMAIN right.columns :
                            /\ right.columns[k].typ.name # NoName
                            /\ resolve_column(left, right.columns[k].typ.name).ok}}
  IN into_iter(column_names, hash_order)
plan_join_constraint(constraint, left, right, hash_order) ==
  CASE constraint[1] = "On" ->
         Try(plan_expr(constraint[2], product(left, right)),
             LAMBDA predicate : RelOk(filter(product(left, right), predicate.expr)),
             RelErr)
    [] OTHER ->
         Try(plan_using_constraint(IF constraint[1] = "Using" THEN constraint[2]
                                   ELSE natural_names(left, right, hash_order),
                                   left, right),
             LAMBDA using : RelOk(project(filter(product(left, right), using.predicate),
                                          using.project_key)),
             RelErr)

\* c.1.nullable = true, for each column c
nullable_columns(columns) ==
  [k \in DOMAIN columns |-> [columns[k] EXCEPT !.typ.nullable = TRUE]]
\* the columns plan_join_operator gives an outer join
outer_columns_left_only(kind, left_columns, right_columns) ==
  left_columns \o nullable_columns(right_columns)
outer_columns(kind, left_columns, right_columns) ==
  CASE kind = "LeftOuter" -> left_columns \o nullable_columns(right_columns)
    [] kind = "RightOuter" -> nullable_columns(left_columns) \o right_columns
    [] kind = "FullOuter" -> nullable_columns(left_columns \o right_columns)

\* plan_join_operator(operator, left, right); operator is <<kind, constraint>>
plan_join_operator(operator, left, right, hash_order) ==
  CASE operator[1] = "Inner" -> plan_join_constraint(operator[2], left, right, hash_order)
    [] operator[1] = "Cross" -> RelOk(product(left, right))
    [] OTHER ->
         LET kind == operator[1]
             bound_left == IF kind = "RightOuter" THEN left
                           ELSE [left EXCEPT !.relation_expr = Local("left")]
             bound_right == IF kind = "LeftOuter" THEN right
                            ELSE [right EXCEPT !.relation_expr = Local("right")]
             extended == IF kind = "RightOuter"
                         THEN <<"Union", Local("both"),
                                <<"RightOuter", Local("both"), Local("right")>>>>
                         ELSE <<"Union", Local("both"),
                                <<"LeftOuter", Local("both"), Local("left")>>>>
             bind(inner) ==
               CASE kind = "LeftOuter" -> let_("left", left.relation_expr, inner)
                 [] kind = "RightOuter" -> let_("right", right.relation_expr, inner)
                 [] kind = "FullOuter" ->
                      let_("left", left.relation_expr,
                           let_("right", right.relation_expr, inner))
         IN Try(plan_join_constraint(operator[2], bound_left, bound_right, hash_order),
                LAMBDA both :
                  RelOk([relation_expr |->
                           bind(let_("both", both.rel.relation_expr, extended)),
                         columns |-> outer_columns(kind, left.columns, right.columns)]),
                RelErr)

\* ------------------------------------------------------------------ FROM, SELECT, UNION
\* plan_table_factor(table_factor) and plan_table_with_joins(table_with_joins);
\* a table factor is <<"Table", name, alias>> (alias "" when absent),
\* <<"Derived">> or <<"NestedJoin", table_with_joins>>
RECURSIVE plan_table_factor(_, _)
RECURSIVE plan_table_with_joins(_, _)
RECURSIVE plan_joins(_, _, _, _)
plan_table_factor(table_factor, hash_order) ==
  CASE table_factor[1] = "Table" ->
         IF table_factor[2] \notin DOMAIN dataflows THEN RelErr("dataflow does not exist")
         ELSE LET expr == from_source(table_factor[2], dataflows[table_factor[2]])
              IN RelOk(IF table_factor[3] # "" THEN alias_table(expr, table_factor[3])
                       ELSE expr)
    [] table_factor[1] = "Derived" -> RelErr("subqueries are not yet supported")
    [] table_factor[1] = "NestedJoin" -> plan_table_with_joins(table_factor[2], hash_order)
\* the loop of plan_table_with_joins from its k-th join on
plan_joins(relation_expr, joins, k, hash_order) ==
  IF k > Len(joins) THEN RelOk(relation_expr)
  ELSE Try(plan_table_factor(joins[k].relation, hash_order),
           LAMBDA right :
             Try(plan_join_operator(joins[k].join_operator, relation_expr, right.rel,
                                    hash_order),
                 LAMBDA joined : plan_joins(joined.rel, joins, k + 1, hash_order),
                 RelErr),
           RelErr)
plan_table_with_joins(table_with_joins, hash_order) ==
  Try(plan_table_factor(table_with_joins.relation, hash_order),
      LAMBDA relation_expr :
        plan_joins(relation_expr.rel, table_with_joins.joins, 1, hash_order),
      RelErr)

\* Ok(outputs) and Err of plan_select_item
OutputsOk(outputs) == [ok |-> TRUE, outputs |-> outputs, err |-> ""]
OutputsErr(msg) == [ok |-> FALSE, outputs |-> <<>>, err |-> msg]
\* plan_select_item(s, relation_expr, named_columns): Ok(outputs) or Err;
\* s is <<"UnnamedExpression", e>>, <<"ExpressionWithAlias", e, alias>>,
\* <<"Wildcard">> or <<"QualifiedWildcard", name>>
plan_select_item(s, relation_expr, named) ==
  CASE s[1] \in {"UnnamedExpression", "ExpressionWithAlias"} ->
         Try(plan_expr(s[2], relation_expr),
             LAMBDA planned :
               OutputsOk(<<[expr |-> planned.expr,
                            typ |-> IF s[1] = "ExpressionWithAlias"
                                    THEN [planned.typ EXCEPT !.name = s[3]]
                                    ELSE planned.typ]>>),
             OutputsErr)
    [] OTHER ->
         LET chosen == IF s[1] = "Wildcard" THEN named
                       ELSE SelectSeq(named, LAMBDA c : c.table = s[2])
             at(k) == resolve_table_column(relation_expr, chosen[k].table, chosen[k].name)
         IN IF \E k \in DOMAIN chosen : ~at(k).ok
            THEN OutputsErr("no such column")
            ELSE OutputsOk([k \in DOMAIN chosen |->
                              [expr |-> Column(at(k).pos), typ |-> at(k).typ]])

\* Step 1 of plan_view_select: fold1 of the FROM items from the k-th on with
\* JoinOperator::Cross; acc is <<>> before the first item
RECURSIVE plan_from(_, _, _, _)
plan_from(acc, from, k, hash_order) ==
  IF k > Len(from) THEN RelOk(acc[1])
  ELSE Try(plan_table_with_joins(from[k], hash_order),
           LAMBDA right :
             Try(IF acc = <<>> THEN right
                 ELSE plan_join_operator(<<"Cross">>, acc[1], right.rel, hash_order),
                 LAMBDA left : plan_from(<<left.rel>>, from, k + 1, hash_order),
                 RelErr),
           RelErr)
\* Step 2 of plan_view_select; selection is <<>> or <<expr>>
plan_where(selection, relation_expr) ==
  IF selection = <<>> THEN RelOk(relation_expr)
  ELSE Try(plan_expr(selection[1], relation_expr),
           LAMBDA planned :
             IF planned.typ.scalar_type # "Bool"
             THEN RelErr("WHERE clause must have boolean type")
             ELSE RelOk(filter(relation_expr, planned.expr)),
           RelErr)
\* Step 5 of plan_view_select: the outputs of the projection from its k-th item on
RECURSIVE plan_projection(_, _, _, _)
plan_projection(projection, k, relation_expr, named) ==
  IF k > Len(projection) THEN OutputsOk(<<>>)
  ELSE Try(plan_select_item(projection[k], relation_expr, named),
           LAMBDA item :
             Try(plan_projection(projection, k + 1, relation_expr, named),
                 LAMBDA rest : OutputsOk(item.outputs \o rest.outputs),
                 OutputsErr),
           OutputsErr)
\* Steps 5 and 6 of plan_view_select, and finish()
plan_outputs(s, relation_expr) ==
  Try(plan_projection(s.projection, 1, relation_expr, named_columns(relation_expr)),
      LAMBDA planned :
        finish(IF s.distinct THEN distinct(select(relation_expr, planned.outputs))
               ELSE select(relation_expr, planned.outputs)),
      Err)

\* plan_view_select(s) for a SELECT without aggregates, GROUP BY and HAVING;
\* s.selection is <<>> or <<expr>>
plan_view_select(s, hash_order) ==
  Try(IF s.from # <<>> THEN plan_from(<<>>, s.from, 1, hash_order)
      ELSE IF "dual" \in DOMAIN dataflows
      THEN RelOk(from_source("dual", dataflows["dual"]))
      ELSE RelErr("dataflow does not exist"),
      LAMBDA from :
        Try(plan_where(s.selection, from.rel),
            LAMBDA relation_expr : plan_outputs(s, relation_expr.rel),
            Err),
      Err)

\* the test of the column types of a UNION
union_types_match_numeric(left_col_type, right_col_type) ==
  \/ left_col_type.scalar_type = right_col_type.scalar_type
  \/ {left_col_type.scalar_type, right_col_type.scalar_type} \subseteq NumericTypes
union_types_match(left_col_type, right_col_type) ==
  left_col_type.scalar_type = right_col_type.scalar_type
\* the column type a UNION gives a column
union_column_type_left(left_col_type, right_col_type) ==
  ColumnType(left_col_type.name, left_col_type.scalar_type, left_col_type.nullable)
union_column_type(left_col_type, right_col_type) ==
  ColumnType(left_col_type.name, left_col_type.scalar_type,
             left_col_type.nullable \/ right_col_type.nullable)

\* the UNION arm of plan_set_expr, from the planned sides on
plan_union(all, left, right) ==
  IF Len(left.typ) # Len(right.typ)
  THEN Err("Each UNION should have the same number of columns")
  ELSE IF \E k \in DOMAIN left.typ : ~union_types_match(left.typ[k], right.typ[k])
  THEN Err("Each UNION should have the same column types")
  ELSE Ok(IF all THEN <<"Union", left.expr, right.expr>>
          ELSE <<"Distinct", <<"Union", left.expr, right.expr>>>>,
          [k \in DOMAIN left.typ |-> union_column_type(left.typ[k], right.typ[k])])

\* plan_set_expr(q); q is <<"Select", select>> or
\* <<"SetOperation", op, all, left, right>>
RECURSIVE plan_set_expr(_, _)
plan_set_expr(q, hash_order) ==
  CASE q[1] = "Select" -> plan_view_select(q[2], hash_order)
    [] q[1] = "SetOperation" /\ q[2] = "Union" ->
         Try(plan_set_expr(q[4], hash_order),
             LAMBDA left :
               Try(plan_set_expr(q[5], hash_order),
                   LAMBDA right : plan_union(q[3], left, right),
                   Err),
             Err)
    [] OTHER -> Err("set operations are not yet supported")

\* plan_view_query(q); q is [ctes, limit, order_by, body]
plan_view_query(q, hash_order) ==
  IF q.ctes # <<>> THEN Err("CTEs are not yet supported")
  ELSE IF q.limit # <<>> THEN Err("LIMIT is not supported in a view definition")
  ELSE IF q.order_by # <<>> THEN Err("ORDER BY is not supported in a view definition")
  ELSE plan_set_expr(q.body, hash_order)

\* the match on column.data_type of the CreateTable arm
table_scalar_type(data_type) ==
  CASE data_type \in {"Char", "Varchar", "Text"} -> "String"
    [] data_type \in {"SmallInt", "Int", "BigInt"} -> "Int64"
    [] data_type \in {"Float", "Real", "Double"} -> "Float64"
    [] data_type \in {"Date", "Timestamp", "Time"} -> data_type
    [] OTHER -> ""
\* the CreateTable arm of plan_statement; stmt is
\* <<"SQLCreateTable", name, columns, constraints, with_options, external>>,
\* columns a list of [name, data_type]
plan_create_table(stmt) ==
  IF stmt[6] THEN Err("EXTERNAL tables are not supported")
  ELSE IF stmt[5] # <<>> THEN Err("WITH options are not supported")
  ELSE IF \E k \in DOMAIN stmt[4] : stmt[4][k] \in {"Check", "ForeignKey"}
  THEN Err("constraints are not supported")
  ELSE IF \E k \in DOMAIN stmt[3] : table_scalar_type(stmt[3][k].data_type) = ""
  THEN Err("Unexpected SQL type")
  ELSE Ok(<<"Source", stmt[2], "Local">>,
          [k \in DOMAIN stmt[3] |->
             ColumnType(stmt[3][k].name, table_scalar_type(stmt[3][k].data_type), TRUE)])

\* plan_statement(stmt): Ok(Dataflow) or Err; stmt is
\* <<"SQLCreateView", name, columns, query, with_options>>, a CREATE TABLE or
\* another statement
plan_statement(stmt, hash_order) ==
  IF stmt[1] = "SQLCreateTable" THEN plan_create_table(stmt)
  ELSE IF stmt[1] # "SQLCreateView" THEN Err("Unsupported statement")
  ELSE IF stmt[5] # <<>> THEN Err("WITH options are not yet supported")
  ELSE Try(plan_view_query(stmt[4], hash_order),
           LAMBDA query :
             IF stmt[3] # <<>> /\ Len(stmt[3]) # Len(query.typ)
             THEN Err("VIEW definition has a different number of columns than the query")
             ELSE Ok(<<"View", stmt[2], query.expr>>,
                     IF stmt[3] = <<>> THEN query.typ
                     ELSE [k \in DOMAIN query.typ |->
                             [query.typ[k] EXCEPT !.name = stmt[3][k]]]),
           Err)

\* ------------------------------------------------------------------ the coordinator
Active(e) == e.phase # "done"

\* the coordinator task handles one message at a time: it is suspended while
\* a commit it awaits is in progress, and gone once the process has panicked
CoordIdle ==
  /\ ~halted
  /\ \A i \in DOMAIN commits : Active(commits[i]) => ~commits[i].awaited

defer_write_front(deferred) ==
  /\ write_lock_wait_group' = <<deferred>> \o write_lock_wait_group
  /\ lock_waiters' = lock_waiters + 1
defer_write_no_task(deferred) ==
  /\ write_lock_wait_group' = Append(write_lock_wait_group, deferred)
  /\ lock_waiters' = lock_waiters
\* defer_write(deferred)
defer_write(deferred) ==
  /\ write_lock_wait_group' = Append(write_lock_wait_group, deferred)
  /\ lock_waiters' = lock_waiters + 1

\* try_group_commit(), run for a Message::GroupCommit
try_group_commit ==
  LET timestamp == peek_local_ts(clock)
      b == try_group_commit_branch(pending_writes, timestamp, now, write_lock)
  IN
  \/ /\ b = "return"
     /\ UNCHANGED <<retry_tasks, commits, write_lock, write_lock_wait_group, lock_waiters>>
  \/ /\ b = "sleep"
     /\ retry_tasks' = Append(retry_tasks, remaining_ms(timestamp, now))
     /\ UNCHANGED <<commits, write_lock, write_lock_wait_group, lock_waiters>>
  \/ /\ b = "carried"
     /\ commits' = Append(commits, group_commit_call(FALSE))
     /\ UNCHANGED <<retry_tasks, write_lock, write_lock_wait_group, lock_waiters>>
  \/ /\ b = "acquire"
     /\ write_lock' = TRUE
     /\ commits' = Append(commits, group_commit_call(TRUE))
     /\ UNCHANGED <<retry_tasks, write_lock_wait_group, lock_waiters>>
  \/ /\ b = "defer"
     /\ defer_write(DeferredGroupCommit)
     /\ UNCHANGED <<retry_tasks, commits, write_lock>>

HandleGroupCommit ==
  /\ CoordIdle
  /\ internal_cmd # <<>>
  /\ Head(internal_cmd).type = "GroupCommit"
  /\ internal_cmd' = Tail(internal_cmd)
  /\ try_group_commit
  /\ UNCHANGED <<catalog, pending_writes, clock, now, write_frontier, storage_appends,
                 session_lock, session_state, submitted, responses, halted, nevents>>
  /\ UNCHANGED planVars

\* the sleeping task of try_group_commit wakes and posts Message::GroupCommit
RetryWake(k) ==
  /\ ~halted
  /\ k \in DOMAIN retry_tasks
  /\ retry_tasks' = [j \in 1..(Len(retry_tasks) - 1) |->
                       IF j < k THEN retry_tasks[j] ELSE retry_tasks[j + 1]]
  /\ internal_cmd' = Append(internal_cmd, GroupCommitMsg)
  /\ UNCHANGED <<catalog, pending_writes, write_lock, write_lock_wait_group,
                 lock_waiters, clock, now, write_frontier, storage_appends, commits,
                 session_lock, session_state, submitted, responses, halted, nevents>>
  /\ UNCHANGED planVars

\* the background task of defer_write gets the lock and posts WriteLockGrant
LockTaskAcquire ==
  /\ ~halted
  /\ lock_waiters > 0
  /\ ~write_lock
  /\ write_lock' = TRUE
  /\ lock_waiters' = lock_waiters - 1
  /\ internal_cmd' = Append(internal_cmd, WriteLockGrantMsg)
  /\ UNCHANGED <<catalog, pending_writes, write_lock_wait_group, retry_tasks, clock,
                 now, write_frontier, storage_appends, commits, session_lock,
                 session_state, submitted, responses, halted, nevents>>
  /\ UNCHANGED planVars

\* ------------------------------------------------------------------ sessions
try_grant_session_write_lock_always(locked) == TRUE
\* try_grant_session_write_lock: Ok iff the non-blocking try_lock_owned succeeds
try_grant_session_write_lock_ok(locked) == ~locked

\* guard_write_critical_section!(coord, tx, session, plan) for a write plan of s
GuardWriteCriticalSection(s) ==
  /\ CoordIdle
  /\ session_state[s] = "idle"
  /\ nevents < MaxEvents
  /\ nevents' = nevents + 1
  /\ IF session_lock[s]
     THEN UNCHANGED <<session_lock, write_lock, write_lock_wait_group, lock_waiters,
                      session_state>>
     ELSE IF try_grant_session_write_lock_ok(write_lock)
     THEN /\ session_lock' = [session_lock EXCEPT ![s] = TRUE]
          /\ write_lock' = TRUE
          /\ UNCHANGED <<write_lock_wait_group, lock_waiters, session_state>>
     ELSE /\ defer_write(DeferredPlan(s))
          /\ session_state' = [session_state EXCEPT ![s] = "deferred"]
          /\ UNCHANGED <<session_lock, write_lock>>
  /\ UNCHANGED <<catalog, pending_writes, internal_cmd, retry_tasks, clock, now,
                 write_frontier, storage_appends, commits, submitted, responses,
                 halted>>
  /\ UNCHANGED planVars

\* submit_write(pending_write_txn): the session ends its transaction with
\* `writes`; its lock guard, if it has one, moves into the PendingWriteTxn
submit_write(s, writes) ==
  /\ CoordIdle
  /\ session_state[s] = "idle"
  /\ nevents < MaxEvents
  /\ nevents' = nevents + 1
  /\ internal_cmd' = Append(internal_cmd, GroupCommitMsg)
  /\ pending_writes' = Append(pending_writes,
        [txn |-> Len(submitted) + 1, writes |-> writes,
         write_lock_guard |-> session_lock[s]])
  /\ submitted' = Append(submitted,
        [session |-> s, writes |-> writes, write_lock_guard |-> session_lock[s]])
  /\ session_lock' = [session_lock EXCEPT ![s] = FALSE]
  /\ session_state' = [session_state EXCEPT ![s] = "pending"]
  /\ UNCHANGED <<catalog, write_lock, write_lock_wait_group, lock_waiters, retry_tasks,
                 clock, now, write_frontier, storage_appends, commits, responses,
                 halted>>
  /\ UNCHANGED planVars

\* a session that holds the lock ends its transaction without a write: the
\* guard is dropped
SessionRelease(s) ==
  /\ ~halted
  /\ session_state[s] = "idle"
  /\ session_lock[s]
  /\ session_lock' = [session_lock EXCEPT ![s] = FALSE]
  /\ write_lock' = FALSE
  /\ UNCHANGED <<catalog, pending_writes, write_lock_wait_group, lock_waiters,
                 internal_cmd, retry_tasks, clock, now, write_frontier, storage_appends,
                 commits, session_state, submitted, responses, halted, nevents>>
  /\ UNCHANGED planVars

\* ------------------------------------------------------------------ group_commit, resumed
\* group_commit after get_and_step_local_write_ts().await: drain, build the
\* payload, call storage append (rejected synchronously or left in flight)
GroupCommitAppend(i) ==
  /\ ~halted
  /\ i \in DOMAIN commits
  /\ commits[i].kind = "group_commit"
  /\ commits[i].phase = "step"
  /\ LET wts == group_commit_write_ts(clock)
         payload == WithAdvanceTo(
                      AddPending(EmptyMap, pending_writes, catalog, wts.timestamp),
                      wts.advance_to)
         txns == [k \in DOMAIN pending_writes |-> pending_writes[k].txn]
         ok == AppendValid(payload, write_frontier)
     IN /\ clock' = wts.clock
        /\ pending_writes' = drain(pending_writes)
        /\ write_lock' = IF drained_guard_dropped(pending_writes) THEN FALSE
                         ELSE write_lock
        /\ commits' = [commits EXCEPT ![i] =
              [@ EXCEPT !.phase = IF ok THEN "await_ack" ELSE "rejected",
                        !.timestamp = wts.timestamp,
                        !.advance_to = wts.advance_to,
                        !.txns = txns,
                        !.payload = payload,
                        !.steps = @ + 1]]
        /\ storage_appends' =
             Append(storage_appends,
                    [by |-> i, payload |-> payload, accepted |-> ok, ids |-> {}])
        /\ write_frontier' = IF ok THEN FrontierAfter(payload, write_frontier)
                             ELSE write_frontier
        /\ halted' = ~ok
  /\ UNCHANGED <<catalog, write_lock_wait_group, lock_waiters, internal_cmd,
                 retry_tasks, now, session_lock, session_state, submitted, responses, nevents>>
  /\ UNCHANGED planVars

\* the storage controller completes the append a commit is waiting for
StorageAck(i, outcome) ==
  /\ ~halted
  /\ i \in DOMAIN commits
  /\ commits[i].phase = "await_ack"
  /\ commits' = [commits EXCEPT ![i] = [@ EXCEPT !.phase = "acked", !.ack = outcome]]
  /\ UNCHANGED <<catalog, pending_writes, write_lock, write_lock_wait_group,
                 lock_waiters, internal_cmd, retry_tasks, clock, now, write_frontier,
                 storage_appends, session_lock, session_state, submitted, responses,
                 halted, nevents>>
  /\ UNCHANGED planVars

\* group_commit after the append's .await: unwrap the outcome, end each
\* transaction and send its response; the caller's guard is dropped on return
GroupCommitRespond(i) ==
  /\ ~halted
  /\ i \in DOMAIN commits
  /\ commits[i].kind = "group_commit"
  /\ commits[i].phase = "acked"
  /\ LET e == commits[i]
         ok == e.ack = "ok"
         back == {submitted[e.txns[k]].session : k \in DOMAIN e.txns}
     IN /\ responses' = send_responses(responses, e.txns, e.ack)
        /\ halted' = ~ok
        /\ commits' = [commits EXCEPT ![i] =
              [@ EXCEPT !.phase = IF ok THEN "done" ELSE "failed",
                        !.guard = IF ok THEN FALSE ELSE @]]
        /\ write_lock' = IF ok /\ e.guard THEN FALSE ELSE write_lock
        /\ session_state' = [s \in Sessions |->
              IF ok /\ s \in back THEN "idle" ELSE session_state[s]]
  /\ UNCHANGED <<catalog, pending_writes, write_lock_wait_group, lock_waiters,
                 internal_cmd, retry_tasks, clock, now, write_frontier, storage_appends,
                 session_lock, submitted, nevents>>
  /\ UNCHANGED planVars

\* ------------------------------------------------------------------ DDL and builtin tables
\* a DDL statement: the catalog transaction drops `dropped` and then calls
\* send_builtin_table_updates(updates)
Ddl(dropped, updates) ==
  /\ CoordIdle
  /\ nevents < MaxEvents
  /\ dropped \subseteq catalog
  /\ nevents' = nevents + 1
  /\ catalog' = catalog \ dropped
  /\ commits' = Append(commits, NewCommit("builtin", FALSE, updates))
  /\ UNCHANGED <<pending_writes, write_lock, write_lock_wait_group, lock_waiters,
                 internal_cmd, retry_tasks, clock, now, write_frontier, storage_appends,
                 session_lock, session_state, submitted, responses, halted>>
  /\ UNCHANGED planVars

\* send_builtin_table_updates after get_and_step_local_write_ts().await
BuiltinAppend(i) ==
  /\ ~halted
  /\ i \in DOMAIN commits
  /\ commits[i].kind = "builtin"
  /\ commits[i].phase = "step"
  /\ LET wts == get_and_step_local_write_ts(clock)
         payload == builtin_appends(commits[i].input, wts.timestamp, wts.advance_to)
         skipped == DOMAIN payload = {}
         ok == AppendValid(payload, write_frontier)
     IN /\ clock' = wts.clock
        /\ commits' = [commits EXCEPT ![i] =
              [@ EXCEPT !.phase = IF skipped THEN "done"
                                  ELSE IF ok THEN "await_ack" ELSE "rejected",
                        !.timestamp = wts.timestamp,
                        !.advance_to = wts.advance_to,
                        !.payload = payload,
                        !.steps = @ + 1]]
        /\ storage_appends' =
             IF skipped THEN storage_appends
             ELSE Append(storage_appends,
                         [by |-> i, payload |-> payload, accepted |-> ok, ids |-> {}])
        /\ write_frontier' = IF ~skipped /\ ok
                             THEN FrontierAfter(payload, write_frontier)
                             ELSE write_frontier
        /\ halted' = (~skipped /\ ~ok)
  /\ UNCHANGED <<catalog, pending_writes, write_lock, write_lock_wait_group,
                 lock_waiters, internal_cmd, retry_tasks, now, session_lock,
                 session_state, submitted, responses, nevents>>
  /\ UNCHANGED planVars

\* send_builtin_table_updates after the append's .await
BuiltinDone(i) ==
  /\ ~halted
  /\ i \in DOMAIN commits
  /\ commits[i].kind = "builtin"
  /\ commits[i].phase = "acked"
  /\ halted' = (commits[i].ack # "ok")
  /\ commits' = [commits EXCEPT ![i] =
        [@ EXCEPT !.phase = IF commits[i].ack = "ok" THEN "done" ELSE "failed"]]
  /\ UNCHANGED <<catalog, pending_writes, write_lock, write_lock_wait_group,
                 lock_waiters, internal_cmd, retry_tasks, clock, now, write_frontier,
                 storage_appends, session_lock, session_state, submitted, responses, nevents>>
  /\ UNCHANGED planVars

\* ------------------------------------------------------------------ WriteLockGrant
\* Message::WriteLockGrant(guard): the head of the wait FIFO is re-driven with
\* the guard; with nothing waiting the guard is dropped
HandleWriteLockGrant ==
  /\ CoordIdle
  /\ internal_cmd # <<>>
  /\ Head(internal_cmd).type = "WriteLockGrant"
  /\ internal_cmd' = Tail(internal_cmd)
  /\ IF write_lock_wait_group = <<>>
     THEN /\ write_lock' = FALSE
          /\ UNCHANGED <<write_lock_wait_group, session_lock, session_state, commits>>
     ELSE LET ready == Head(write_lock_wait_group) IN
          /\ write_lock_wait_group' = Tail(write_lock_wait_group)
          /\ IF ready.kind = "Plan"
             THEN /\ session_lock' = [session_lock EXCEPT ![ready.session] = TRUE]
                  /\ session_state' = [session_state EXCEPT ![ready.session] = "idle"]
                  /\ UNCHANGED <<write_lock, commits>>
             ELSE IF pending_writes = <<>>
             THEN /\ write_lock' = FALSE
                  /\ UNCHANGED <<session_lock, session_state, commits>>
             ELSE /\ commits' = Append(commits, group_commit_call(TRUE))
                  /\ UNCHANGED <<write_lock, session_lock, session_state>>
  /\ UNCHANGED <<catalog, pending_writes, lock_waiters, retry_tasks, clock, now,
                 write_frontier, storage_appends, submitted, responses, halted, nevents>>
  /\ UNCHANGED planVars

\* ------------------------------------------------------------------ local input advances
\* queue_local_input_advances(advance_to): every table of the catalog is listed
queue_local_input_advances(advance_to) ==
  internal_cmd' = Append(internal_cmd, AdvanceLocalInput(advance_to, catalog))

\* the timeline tick: the local clock is brought up to the wall clock and the
\* tables are asked to advance to it
AdvanceTimelines ==
  /\ CoordIdle
  /\ nevents < MaxEvents
  /\ nevents' = nevents + 1
  /\ clock' = Max(clock, now)
  /\ queue_local_input_advances(Max(clock, now))
  /\ UNCHANGED <<catalog, pending_writes, write_lock, write_lock_wait_group,
                 lock_waiters, retry_tasks, now, write_frontier, storage_appends,
                 commits, session_lock, session_state, submitted, responses, halted>>
  /\ UNCHANGED planVars

\* advance_local_inputs(inputs), run for a Message::AdvanceLocalInput; the
\* append is not awaited
advance_local_inputs ==
  /\ CoordIdle
  /\ internal_cmd # <<>>
  /\ Head(internal_cmd).type = "AdvanceLocalInput"
  /\ internal_cmd' = Tail(internal_cmd)
  /\ LET inputs == Head(internal_cmd)
         payload == advance_appends(inputs.ids, catalog, write_frontier,
                                    inputs.advance_to)
     IN /\ storage_appends' = Append(storage_appends,
                                     [by |-> 0, payload |-> payload, accepted |-> TRUE,
                                      ids |-> inputs.ids])
        /\ write_frontier' = FrontierAfter(payload, write_frontier)
  /\ UNCHANGED <<catalog, pending_writes, write_lock, write_lock_wait_group,
                 lock_waiters, retry_tasks, clock, now, commits, session_lock,
                 session_state, submitted, responses, halted, nevents>>
  /\ UNCHANGED planVars

\* the wall clock reads n from now on (it may jump either way)
WallClock(n) ==
  /\ ~halted
  /\ n # now
  /\ nevents < MaxEvents
  /\ nevents' = nevents + 1
  /\ now' = n
  /\ UNCHANGED <<catalog, pending_writes, write_lock, write_lock_wait_group,
                 lock_waiters, internal_cmd, retry_tasks, clock, write_frontier,
                 storage_appends, commits, session_lock, session_state, submitted,
                 responses, halted>>
  /\ UNCHANGED planVars

Init ==
  /\ catalog = AllIds
  /\ pending_writes = <<>>
  /\ write_lock = FALSE
  /\ write_lock_wait_group = <<>>
  /\ lock_waiters = 0
  /\ internal_cmd = <<>>
  /\ retry_tasks = <<>>
  /\ clock \in ClockStarts
  /\ now \in {n \in NowValues : n >= clock}
  /\ write_frontier = [id \in AllIds |-> 0]
  /\ storage_appends = <<>>
  /\ commits = <<>>
  /\ session_lock = [s \in Sessions |-> FALSE]
  /\ session_state = [s \in Sessions |-> "idle"]
  /\ submitted = <<>>
  /\ responses = <<>>
  /\ halted = FALSE
  /\ nevents = 0
  /\ PlanVarsInit
Next ==
  \/ \E s \in Sessions : GuardWriteCriticalSection(s)
  \/ \E s \in Sessions : \E w \in WriteChoices(s) : submit_write(s, w)
  \/ \E s \in Sessions : SessionRelease(s)
  \/ HandleGroupCommit
  \/ HandleWriteLockGrant
  \/ advance_local_inputs
  \/ AdvanceTimelines
  \/ \E d \in DdlChoices : Ddl(d.dropped, d.updates)
  \/ \E i \in DOMAIN commits : GroupCommitAppend(i)
  \/ \E i \in DOMAIN commits : BuiltinAppend(i)
  \/ \E i \in DOMAIN commits, o \in {"ok", "err"} : StorageAck(i, o)
  \/ \E i \in DOMAIN commits : GroupCommitRespond(i)
  \/ \E i \in DOMAIN commits : BuiltinDone(i)
  \/ \E k \in DOMAIN retry_tasks : RetryWake(k)
  \/ LockTaskAcquire
  \/ \E n \in NowValues : WallClock(n)

Spec == Init /\ [][Next]_vars
\* ------------------------------------------------------------------ properties
Range(f) == {f[k] : k \in DOMAIN f}
Stepped(e) == e.steps > 0
Drained(e) == e.kind = "group_commit" /\ Stepped(e)

\* C1. Monotone timestamps: of two commits (group_commit or
\* send_builtin_table_updates) that stepped the clock, the earlier one in
\* coordinator order has the smaller timestamp, and its advance_to is at most
\* the later one's timestamp.
C1_MonotoneTimestamps ==
  \A i, j \in DOMAIN commits :
    (i < j /\ Stepped(commits[i]) /\ Stepped(commits[j])) =>
      /\ commits[i].timestamp < commits[j].timestamp
      /\ commits[i].advance_to <= commits[j].timestamp

C1_Witness ==
  \E i, j \in DOMAIN commits :
    /\ i < j
    /\ Stepped(commits[i]) /\ Stepped(commits[j])
    /\ commits[i].kind # commits[j].kind

\* the owners of the write lock
SessionOwners == {s \in Sessions : session_lock[s]}
PendingOwners == {k \in DOMAIN pending_writes : has_write_lock(pending_writes[k])}
CommitOwners == {i \in DOMAIN commits : Active(commits[i]) /\ commits[i].guard}
GrantOwners == {k \in DOMAIN internal_cmd : internal_cmd[k].type = "WriteLockGrant"}
OwnerCount ==
  Cardinality(SessionOwners) + Cardinality(PendingOwners)
    + Cardinality(CommitOwners) + Cardinality(GrantOwners)

\* C2. Lock serialization: at most one owner holds the write lock: a session,
\* a PendingWriteTxn carrying the guard, the coordinator's own acquisition in
\* try_group_commit, or a defer_write task's undelivered WriteLockGrant.
C2_LockSerialization == OwnerCount <= 1

C2_Witness ==
  /\ GrantOwners # {}
  /\ write_lock_wait_group # <<>>
  /\ pending_writes # <<>>

\* C3. A response is sent only after the storage append of the commit that
\* drained the transaction was acknowledged; when the append is rejected or
\* fails the coordinator halts and no drained transaction gets a response.
C3_ResponseAfterAck ==
  /\ \A r \in DOMAIN responses :
       \E i \in DOMAIN commits :
         /\ Drained(commits[i])
         /\ responses[r] \in Range(commits[i].txns)
         /\ commits[i].ack = "ok"
  /\ \A i \in DOMAIN commits :
       (Drained(commits[i]) /\ (commits[i].phase = "rejected" \/ commits[i].ack = "err")) =>
         /\ Range(commits[i].txns) \cap Range(responses) = {}
         /\ (commits[i].phase \in {"rejected", "failed"} => halted)

C3_Witness ==
  \E i, j \in DOMAIN commits :
    /\ commits[i].phase = "done" /\ Drained(commits[i])
    /\ Range(commits[i].txns) \subseteq Range(responses)
    /\ commits[j].phase = "failed" /\ Drained(commits[j])
    /\ halted

\* C4. Exactly-once consumption: a submitted transaction is drained by at
\* most one group_commit and is gone from pending_writes once drained; a
\* commit issues one append; the response is sent at most once, and exactly
\* once when the commit that drained the transaction has ended.
TimesDrained(t) ==
  Cardinality({<<i, k>> \in (DOMAIN commits) \X (1..Len(submitted)) :
                 k \in DOMAIN commits[i].txns /\ commits[i].txns[k] = t})
TimesResponded(t) == Cardinality({r \in DOMAIN responses : responses[r] = t})
TimesPending(t) ==
  Cardinality({k \in DOMAIN pending_writes : pending_writes[k].txn = t})
C4_ExactlyOnce ==
  /\ \A t \in DOMAIN submitted :
       /\ TimesDrained(t) + TimesPending(t) = 1
       /\ TimesResponded(t) <= 1
       /\ (\E i \in DOMAIN commits :
             commits[i].phase = "done" /\ t \in Range(commits[i].txns))
            => TimesResponded(t) = 1
  /\ \A i \in DOMAIN commits :
       Cardinality({a \in DOMAIN storage_appends : storage_appends[a].by = i}) <= 1

C4_Witness ==
  /\ Len(submitted) >= 2
  /\ \A t \in DOMAIN submitted : TimesDrained(t) = 1 /\ TimesResponded(t) = 1
  /\ Len(commits) >= 2
\* the ids the pending writes target
PendingTargets ==
  {id \in AllIds : \E k \in DOMAIN pending_writes :
     \E w \in DOMAIN pending_writes[k].writes : pending_writes[k].writes[w].id = id}

\* C5. Drop-absorbs-write: when group_commit drains, a target absent from
\* the catalog gets no entry in the payload and every target present gets
\* one; the append is made even when the payload is empty; and the drained
\* transactions all get their response when the commit ends.
C5_DropAbsorbsWrite ==
  /\ [][\A i \in DOMAIN commits :
          (commits[i].kind = "group_commit" /\ commits[i].phase = "step"
             /\ commits'[i].phase # "step") =>
            /\ DOMAIN commits'[i].payload = PendingTargets \cap catalog
            /\ Len(storage_appends') = Len(storage_appends) + 1
            /\ storage_appends'[Len(storage_appends')].payload = commits'[i].payload
            /\ storage_appends'[Len(storage_appends')].accepted]_vars
  /\ [](\A i \in DOMAIN commits :
          (Drained(commits[i]) /\ commits[i].phase = "done") =>
            Range(commits[i].txns) \subseteq Range(responses))

C5_Witness ==
  \E i \in DOMAIN commits :
    /\ Drained(commits[i]) /\ commits[i].phase = "done"
    /\ commits[i].txns # <<>>
    /\ DOMAIN commits[i].payload = {}
    /\ Range(commits[i].txns) \subseteq Range(responses)
    /\ \E a \in DOMAIN storage_appends :
         storage_appends[a].by = i /\ DOMAIN storage_appends[a].payload = {}

\* C6. Group atomicity: in one group_commit every update carries the
\* commit's timestamp and every entry its advance_to; the clock is stepped
\* once, so that it reads advance_to while the commit is in progress; and
\* advance_to > timestamp.
C6_GroupAtomicity ==
  \A i \in DOMAIN commits :
    Drained(commits[i]) =>
      /\ \A id \in DOMAIN commits[i].payload :
           /\ commits[i].payload[id].advance_to = commits[i].advance_to
           /\ \A k \in DOMAIN commits[i].payload[id].updates :
                commits[i].payload[id].updates[k].timestamp = commits[i].timestamp
      /\ commits[i].steps = 1
      /\ commits[i].advance_to > commits[i].timestamp
      /\ (commits[i].phase \in {"await_ack", "acked"} =>
            clock = commits[i].advance_to /\ clock = commits[i].timestamp + 1)

C6_Witness ==
  \E i \in DOMAIN commits :
    /\ Drained(commits[i])
    /\ Len(commits[i].txns) >= 2
    /\ Cardinality(DOMAIN commits[i].payload) >= 2
    /\ \E id \in DOMAIN commits[i].payload : Len(commits[i].payload[id].updates) >= 2

\* C7. At most one commit at a time: while a group_commit or a
\* send_builtin_table_updates is between its start and its end, no other
\* one has started, and the coordinator handles no message.
C7_OneCommitAtATime ==
  /\ [](Cardinality({i \in DOMAIN commits : Active(commits[i])}) <= 1)
  /\ [][(\E i \in DOMAIN commits : Active(commits[i])) =>
          /\ Len(commits') = Len(commits)
          /\ Len(internal_cmd') >= Len(internal_cmd)
          /\ pending_writes' = <<>> \/ pending_writes' = pending_writes]_vars

C7_Witness ==
  /\ \E i \in DOMAIN commits : commits[i].phase = "await_ack"
  /\ \E k \in DOMAIN internal_cmd : internal_cmd[k].type = "GroupCommit"
  /\ \E k \in DOMAIN internal_cmd : internal_cmd[k].type = "AdvanceLocalInput"

\* C8. The guard a PendingWriteTxn carries stays held until the end of the
\* group_commit that drains it: while that commit waits for its append and
\* has not yet responded, the lock is held and has passed to nobody else.
CarriedGuard(e) ==
  \E k \in DOMAIN e.txns : submitted[e.txns[k]].write_lock_guard
C8_GuardHeldUntilCommitEnd ==
  \A i \in DOMAIN commits :
    (Drained(commits[i]) /\ commits[i].phase \in {"await_ack", "acked"}
       /\ CarriedGuard(commits[i])) =>
      /\ write_lock
      /\ GrantOwners = {}

\* C9. Clock-ahead branch: try_group_commit with pending writes and
\* peek_local_ts() > now makes no append, leaves the clock, pending_writes,
\* the lock and the wait FIFO alone, starts no commit, and spawns one retry
\* task that sleeps min(ts - now, 1000) ms; the task, when it wakes, posts one
\* GroupCommit message.
C9_ClockAhead ==
  /\ [][Len(retry_tasks') < Len(retry_tasks) =>
          /\ Len(retry_tasks') = Len(retry_tasks) - 1
          /\ internal_cmd' = Append(internal_cmd, GroupCommitMsg)]_vars
  /\ [][(/\ ~halted
         /\ \A i \in DOMAIN commits : ~Active(commits[i])
         /\ internal_cmd # <<>>
         /\ Head(internal_cmd).type = "GroupCommit"
         /\ internal_cmd' = Tail(internal_cmd)
         /\ pending_writes # <<>>
         /\ clock > now) =>
          /\ storage_appends' = storage_appends
          /\ clock' = clock
          /\ pending_writes' = pending_writes
          /\ commits' = commits
          /\ write_lock' = write_lock
          /\ write_lock_wait_group' = write_lock_wait_group
          /\ lock_waiters' = lock_waiters
          /\ retry_tasks' =
               Append(retry_tasks, IF clock - now < 1000 THEN clock - now ELSE 1000)]_vars

C9_Witness ==
  /\ \E k \in DOMAIN retry_tasks : retry_tasks[k] = 400
  /\ clock = 500 /\ now = 100
  /\ PendingOwners # {}
  /\ storage_appends = <<>>

C11_AdvanceFilter ==
  [][(/\ internal_cmd # <<>>
      /\ Head(internal_cmd).type = "AdvanceLocalInput"
      /\ internal_cmd' = Tail(internal_cmd)) =>
       LET inputs == Head(internal_cmd)
           issued == storage_appends'[Len(storage_appends')]
       IN /\ Len(storage_appends') = Len(storage_appends) + 1
          /\ DOMAIN issued.payload =
               {id \in inputs.ids :
                  id \in catalog /\ write_frontier[id] < inputs.advance_to}
          /\ \A id \in DOMAIN issued.payload :
               /\ issued.payload[id].updates = <<>>
               /\ issued.payload[id].advance_to = inputs.advance_to
          /\ commits' = commits
          /\ ~halted'
          /\ \A i \in DOMAIN commits' : ~Active(commits'[i]) \/ ~commits'[i].awaited]_vars

\* an advance whose list holds a table dropped since it was queued, a table
\* whose frontier a later append already moved, and a table it advances
C11_Witness ==
  \E a \in DOMAIN storage_appends :
    /\ storage_appends[a].by = 0
    /\ storage_appends[a].ids \ catalog # {}
    /\ DOMAIN storage_appends[a].payload # {}
    /\ \E id \in (storage_appends[a].ids \cap catalog) \ DOMAIN storage_appends[a].payload :
         \E b \in 1..(a - 1) : id \in DOMAIN storage_appends[b].payload

\* ------------------------------------------------------------------ send_builtin_table_updates alone
\* one call of send_builtin_table_updates with any list of updates to two
\* tables, against the coordinator as constructed
BuiltinIds == {SysId, NumIds}
BuiltinInputs == SeqsUpTo([id : BuiltinIds, row : Rows, diff : Diffs], MaxBuiltinLen)

BuiltinInit ==
  /\ catalog = AllIds
  /\ pending_writes = <<>>
  /\ write_lock = FALSE
  /\ write_lock_wait_group = <<>>
  /\ lock_waiters = 0
  /\ internal_cmd = <<>>
  /\ retry_tasks = <<>>
  /\ clock \in ClockStarts
  /\ now \in {n \in NowValues : n >= clock}
  /\ write_frontier = [id \in AllIds |-> 0]
  /\ storage_appends = <<>>
  /\ \E updates \in BuiltinInputs : commits = <<NewCommit("builtin", FALSE, updates)>>
  /\ session_lock = [s \in Sessions |-> FALSE]
  /\ session_state = [s \in Sessions |-> "idle"]
  /\ submitted = <<>>
  /\ responses = <<>>
  /\ halted = FALSE
  /\ nevents = 0
  /\ PlanVarsInit
BuiltinNext ==
  \/ \E i \in DOMAIN commits : BuiltinAppend(i)
  \/ \E i \in DOMAIN commits, o \in {"ok", "err"} : StorageAck(i, o)
  \/ \E i \in DOMAIN commits : BuiltinDone(i)

BuiltinSpec == BuiltinInit /\ [][BuiltinNext]_vars

\* the sum of the diffs the first k updates of `input` give to (id, row)
RECURSIVE InputDiff(_, _, _, _)
InputDiff(input, id, row, k) ==
  IF k = 0 THEN 0
  ELSE InputDiff(input, id, row, k - 1)
         + (IF input[k].id = id /\ input[k].row = row THEN input[k].diff ELSE 0)

\* C12. Builtin consolidation: the payload of send_builtin_table_updates
\* holds, for each id, each row whose diffs in the input sum to nonzero, once,
\* with that sum and the timestamp just stepped, and no other row; an id
\* whose rows all cancel has no entry; the append is issued once when an
\* entry remains and not at all otherwise.
C12_BuiltinConsolidation ==
  \A i \in DOMAIN commits :
    (commits[i].kind = "builtin" /\ Stepped(commits[i])) =>
      LET input == commits[i].input
          payload == commits[i].payload
          issued == {a \in DOMAIN storage_appends : storage_appends[a].by = i}
      IN /\ \A id \in AllIds, row \in Rows :
              LET sum == InputDiff(input, id, row, Len(input))
                  at == IF id \in DOMAIN payload
                        THEN {k \in DOMAIN payload[id].updates :
                                payload[id].updates[k].row = row}
                        ELSE {}
              IN IF sum = 0 THEN at = {}
                 ELSE /\ Cardinality(at) = 1
                      /\ \A k \in at :
                           /\ payload[id].updates[k].diff = sum
                           /\ payload[id].updates[k].timestamp = commits[i].timestamp
         /\ \A id \in DOMAIN payload :
              /\ payload[id].updates # <<>>
              /\ payload[id].advance_to = commits[i].advance_to
         /\ commits[i].steps = 1
         /\ commits[i].advance_to = commits[i].timestamp + 1
         /\ Cardinality(issued) = (IF DOMAIN payload = {} THEN 0 ELSE 1)
         /\ \A a \in issued : storage_appends[a].payload = payload

\* a call whose input cancels on one table and leaves a row on another
C12_Witness ==
  \E i \in DOMAIN commits :
    /\ commits[i].kind = "builtin" /\ commits[i].phase = "done"
    /\ Len(commits[i].input) = MaxBuiltinLen
    /\ Cardinality(DOMAIN commits[i].payload) = 1
    /\ \E id \in AllIds \ DOMAIN commits[i].payload :
         \E k \in DOMAIN commits[i].input : commits[i].input[k].id = id
    /\ \E a \in DOMAIN storage_appends : storage_appends[a].by = i

\* ------------------------------------------------------------------ group_commit alone
\* the rows of a WriteOp, the WriteOps, and the transactions: up to
\* MaxWriteOps WriteOps each, to any user tables
RowLists ==
  {<<[row |-> 1, diff |-> 1]>>, <<[row |-> 2, diff |-> 1], [row |-> 1, diff |-> -1]>>}
WriteOps == [id : UserIds, rows : RowLists]
TxnWrites == SeqsUpTo(WriteOps, MaxWriteOps) \ {<<>>}
\* what the first session, or the first two in turn, submitted
PendingChoices ==
  {<<a>> : a \in TxnWrites} \cup {<<a, b>> : a, b \in TxnWrites}

\* the coordinator after the sessions of `PendingChoices` called submit_write
\* without holding the lock; then the commit runs
GroupCommitInit ==
  /\ catalog = AllIds
  /\ write_lock = FALSE
  /\ write_lock_wait_group = <<>>
  /\ lock_waiters = 0
  /\ retry_tasks = <<>>
  /\ clock \in ClockStarts
  /\ now \in {n \in NowValues : n >= clock}
  /\ write_frontier = [id \in AllIds |-> 0]
  /\ storage_appends = <<>>
  /\ commits = <<>>
  /\ session_lock = [s \in Sessions |-> FALSE]
  /\ responses = <<>>
  /\ halted = FALSE
  /\ \E pw \in PendingChoices :
       /\ pending_writes =
            [k \in DOMAIN pw |-> [txn |-> k, writes |-> pw[k], write_lock_guard |-> FALSE]]
       /\ submitted =
            [k \in DOMAIN pw |-> [session |-> k, writes |-> pw[k], write_lock_guard |-> FALSE]]
       /\ internal_cmd = [k \in DOMAIN pw |-> GroupCommitMsg]
       /\ session_state = [s \in Sessions |-> IF s \in DOMAIN pw THEN "pending" ELSE "idle"]
       /\ nevents = Len(pw)
  /\ PlanVarsInit
GroupCommitNext ==
  \/ HandleGroupCommit
  \/ \E i \in DOMAIN commits : GroupCommitAppend(i)
  \/ \E i \in DOMAIN commits, o \in {"ok", "err"} : StorageAck(i, o)
  \/ \E i \in DOMAIN commits : GroupCommitRespond(i)

GroupCommitSpec == GroupCommitInit /\ [][GroupCommitNext]_vars

\* the (row, diff) pairs of the first k WriteOps of `writes` that target id
RECURSIVE RowsOfWrites(_, _, _)
RowsOfWrites(writes, id, k) ==
  IF k = 0 THEN <<>>
  ELSE RowsOfWrites(writes, id, k - 1)
         \o (IF writes[k].id = id THEN writes[k].rows ELSE <<>>)
\* the same over the first k transactions of `txns`, in their order
RECURSIVE RowsOfTxns(_, _, _)
RowsOfTxns(txns, id, k) ==
  IF k = 0 THEN <<>>
  ELSE RowsOfTxns(txns, id, k - 1)
         \o RowsOfWrites(submitted[txns[k]].writes, id, Len(submitted[txns[k]].writes))

\* C13. Within one group_commit the updates of an id are those its drained
\* transactions wrote to that id and no others, in the order the transactions
\* were submitted, and within a transaction in the order of its WriteOps and
\* of their rows; the transactions are drained in submission order.
C13_FifoWithinId ==
  \A i \in DOMAIN commits :
    Drained(commits[i]) =>
      /\ \A k \in DOMAIN commits[i].txns :
           k > 1 => commits[i].txns[k - 1] < commits[i].txns[k]
      /\ \A id \in DOMAIN commits[i].payload :
           LET appended == commits[i].payload[id].updates
               written == RowsOfTxns(commits[i].txns, id, Len(commits[i].txns))
           IN /\ Len(appended) = Len(written)
              /\ \A k \in DOMAIN appended :
                   /\ appended[k].row = written[k].row
                   /\ appended[k].diff = written[k].diff

\* two transactions that together append six or more updates to one table
C13_Witness ==
  \E i \in DOMAIN commits :
    /\ Drained(commits[i]) /\ commits[i].phase = "done"
    /\ Len(commits[i].txns) = 2
    /\ \E id \in DOMAIN commits[i].payload :
         /\ Len(commits[i].payload[id].updates) >= 6
         /\ commits[i].payload[id].updates[1].row # commits[i].payload[id].updates[2].row

\* C14. try_group_commit with pending_writes empty changes nothing but the
\* message it consumed: no clock step, no append, no retry task, no deferral,
\* no lock acquisition, no commit; and no group_commit ever runs on an empty
\* pending_writes, so a surplus GroupCommit message adds no commit and no
\* timestamp.
C14_IdempotentOnEmpty ==
  /\ [][(/\ internal_cmd # <<>>
          /\ Head(internal_cmd).type = "GroupCommit"
          /\ internal_cmd' = Tail(internal_cmd)
          /\ pending_writes = <<>>) =>
           /\ clock' = clock
           /\ storage_appends' = storage_appends
           /\ write_frontier' = write_frontier
           /\ retry_tasks' = retry_tasks
           /\ write_lock_wait_group' = write_lock_wait_group
           /\ lock_waiters' = lock_waiters
           /\ write_lock' = write_lock
           /\ commits' = commits
           /\ pending_writes' = pending_writes
           /\ responses' = responses]_vars
  /\ [](\A i \in DOMAIN commits :
          commits[i].kind = "group_commit" =>
            /\ Drained(commits[i]) => commits[i].txns # <<>>
            /\ commits[i].phase = "step" => pending_writes # <<>>)

\* one commit drained two transactions; the GroupCommit message of the second
\* was handled after it, with the clock ahead of the wall clock
C14_Witness ==
  /\ Len(commits) = 1
  /\ Drained(commits[1]) /\ commits[1].phase = "done"
  /\ Len(commits[1].txns) = 2
  /\ internal_cmd = <<>>
  /\ pending_writes = <<>>
  /\ retry_tasks = <<>>
  /\ write_lock_wait_group = <<>> /\ lock_waiters = 0 /\ ~write_lock
  /\ clock = commits[1].advance_to
  /\ clock > now
  /\ Len(storage_appends) = 1

\* ------------------------------------------------------------------ the planner alone
\* the scalar types of an operand: the ladder of try_coalesce_types and two
\* types off it
LadderTypes == {"Null", "Int32", "Int64", "Float32", "Float64"}
OperandTypes == LadderTypes \cup {"String", "Bool"}
\* the operand lists: the k-th operand is the expression Column(k - 1)
CoalesceInputs ==
  {[k \in DOMAIN ts |->
      [expr |-> Column(k - 1),
       typ |-> ColumnType(NoName, ts[k].scalar_type, ts[k].nullable)]] :
     ts \in SeqsUpTo([scalar_type : OperandTypes, nullable : BOOLEAN], MaxOperands) \ {<<>>}}

\* expressions over the columns of table n: column names and literals, and
\* one binary operator over two of them
ExprLeaves ==
  {<<"SQLIdentifier", c>> : c \in {"i", "j", "k", "f"}}
    \cup {<<"SQLValue", <<"Long", "1">>>>, <<"SQLValue", <<"Double", "1.0">>>>,
          <<"SQLValue", <<"Null", "">>>>, <<"SQLValue", <<"SingleQuotedString", "a">>>>}
ExprOps == DOMAIN ArithFunc \cup {"Eq", "And"}
\* x [NOT] BETWEEN low AND high over the same leaves
BetweenInputs ==
  {<<"SQLBetween", x, low, high, negated>> :
     x \in ExprLeaves, low \in ExprLeaves, high \in ExprLeaves, negated \in BOOLEAN}
\* the comparison the law names: x >= low AND x <= high, or x < low OR x > high
BetweenAsComparisons(e) ==
  IF e[5]
  THEN <<"SQLBinaryOp", "Or", <<"SQLBinaryOp", "Lt", e[2], e[3]>>,
                              <<"SQLBinaryOp", "Gt", e[2], e[4]>>>>
  ELSE <<"SQLBinaryOp", "And", <<"SQLBinaryOp", "GtEq", e[2], e[3]>>,
                               <<"SQLBinaryOp", "LtEq", e[2], e[4]>>>>
ExprInputs ==
  {<<"SQLBinaryOp", op, l, r>> : op \in ExprOps, l \in ExprLeaves, r \in ExprLeaves}

\* the SQL the planner is given: SELECTs, UNIONs of them, joins of two tables
\* of the catalog, and CREATE VIEW statements over them
Value(kind, text) == <<"SQLValue", <<kind, text>>>>
Ident(name) == <<"SQLIdentifier", name>>
Table(name) == [relation |-> <<"Table", name, "">>, joins |-> <<>>]
Select(projection, from) ==
  <<"Select", [distinct |-> FALSE, projection |-> projection, from |-> from,
               selection |-> <<>>]>>
SelectOne(e) == Select(<<<<"UnnamedExpression", e>>>>, <<>>)
SelectLeaves ==
  {SelectOne(Value("Long", "1")), SelectOne(Value("Double", "1.0")),
   SelectOne(Value("SingleQuotedString", "a")), SelectOne(Value("Null", "")),
   Select(<<<<"UnnamedExpression", Ident("x")>>>>, <<Table("c")>>),
   Select(<<<<"UnnamedExpression", Ident("y")>>>>, <<Table("c")>>),
   Select(<<<<"UnnamedExpression", Ident("x")>>, <<"UnnamedExpression", Ident("y")>>>>,
          <<Table("c")>>),
   Select(<<<<"ExpressionWithAlias", Ident("y"), "x">>>>, <<Table("b")>>),
   Select(<<<<"Wildcard">>>>, <<Table("d")>>),
   Select(<<<<"UnnamedExpression", Ident("z")>>>>, <<Table("a")>>)}
SetOperation(op, all, left, right) == <<"SetOperation", op, all, left, right>>
SetOperators == {"Union", "Intersect"}
FlatSetOperations ==
  {SetOperation(op, all, l, r) :
     op \in SetOperators, all \in BOOLEAN, l \in SelectLeaves, r \in SelectLeaves}
SetExprInputs ==
  SelectLeaves \cup FlatSetOperations
    \cup {SetOperation("Union", all, l, r) :
            all \in BOOLEAN, l \in {f \in FlatSetOperations : f[2] = "Union"},
            r \in SelectLeaves}

JoinTables == {"a", "b", "c", "d"}
JoinConstraints ==
  {<<"On", <<"SQLBinaryOp", "Eq", Ident("x"), Ident("y")>>>>,
   <<"Using", <<"x">>>>, <<"Using", <<"x", "y">>>>, <<"Natural">>}
JoinOperators ==
  {<<kind, constraint>> :
     kind \in {"Inner", "LeftOuter", "RightOuter", "FullOuter"},
     constraint \in JoinConstraints} \cup {<<"Cross">>}
JoinInputs ==
  {[operator |-> operator, left |-> l, right |-> r] :
     operator \in JoinOperators, l \in JoinTables, r \in JoinTables}

\* the orders in which a HashSet of column names can hand out the names that
\* two of the joined tables have in common
CommonNames ==
  {name \in {"x", "y", "s"} :
     \E t1 \in JoinTables : \E t2 \in JoinTables \ {t1} :
       /\ \E k \in DOMAIN MockDataflows[t1] : MockDataflows[t1][k].name = name
       /\ \E k \in DOMAIN MockDataflows[t2] : MockDataflows[t2][k].name = name}
HashOrders ==
  {order \in [1..Cardinality(CommonNames) -> CommonNames] :
     \A i, j \in DOMAIN order : order[i] = order[j] => i = j}

Query(body) == [ctes |-> <<>>, limit |-> <<>>, order_by |-> <<>>, body |-> body]
JoinedTable(l, operator, r) ==
  [relation |-> <<"Table", l, "">>,
   joins |-> <<[relation |-> <<"Table", r, "">>, join_operator |-> operator]>>]
ViewQueries ==
  {Query(Select(<<<<"Wildcard">>>>, <<JoinedTable(l, operator, r)>>)) :
     l \in JoinTables, r \in JoinTables,
     operator \in {<<"Inner", <<"Natural">>>>, <<"LeftOuter", <<"Natural">>>>,
                   <<"Inner", <<"Using", <<"x">>>>>>, <<"Cross">>}}
    \cup {Query(q) : q \in SelectLeaves}
    \cup {[Query(SelectOne(Value("Long", "1"))) EXCEPT !.limit = <<"1">>]}
StatementInputs ==
  {<<"SQLCreateView", "v", columns, query, <<>>>> :
     columns \in {<<>>, <<"p", "q", "r">>}, query \in ViewQueries}
    \cup {<<"SQLCreateView", "v", <<>>, Query(SelectOne(Value("Long", "1"))), <<"o">>>>,
          <<"SQLDelete">>}

\* ------------------------------------------------------------------ DataflowStore (store.rs)
\* Dataflow::uses(): the names a view's query reads, the tables of its FROM
RECURSIVE table_with_joins_uses(_)
table_factor_uses(table_factor) ==
  CASE table_factor[1] = "Table" -> {table_factor[2]}
    [] table_factor[1] = "NestedJoin" -> table_with_joins_uses(table_factor[2])
    [] OTHER -> {}
table_with_joins_uses(t) ==
  table_factor_uses(t.relation)
    \cup UNION {table_factor_uses(t.joins[k].relation) : k \in DOMAIN t.joins}
RECURSIVE set_expr_uses(_)
set_expr_uses(q) ==
  CASE q[1] = "Select" ->
         UNION {table_with_joins_uses(q[2].from[k]) : k \in DOMAIN q[2].from}
    [] q[1] = "SetOperation" -> set_expr_uses(q[4]) \cup set_expr_uses(q[5])
    [] OTHER -> {}
uses(stmt) == IF stmt[1] = "SQLCreateView" THEN set_expr_uses(stmt[4].body) ELSE {}

\* the store: the type and the metadata of each dataflow
Store(types, meta) == [dataflows |-> types, meta |-> meta]
Without(f, name) == [n \in DOMAIN f \ {name} |-> f[n]]
used_by(store, name) == {n \in DOMAIN store.meta : name \in store.meta[n].uses}

\* DataflowStore::insert(dataflow): fails on a name the store already has
insert_ok(store, name) == name \notin DOMAIN store.dataflows
insert(store, name, kind, typ, names_used) ==
  Store((name :> typ) @@ store.dataflows,
        (name :> [kind |-> kind, uses |-> names_used]) @@ store.meta)

\* DataflowStore::remove(name, mode, removed): st is the store with the list
\* of the dataflows removed so far and whether every removal succeeded
RemoveMode(cascade) == IF cascade THEN "Cascade" ELSE "Restrict"
RECURSIVE remove(_, _, _)
RECURSIVE remove_each(_, _, _)
remove_each(st, names, mode) ==
  IF names = {} \/ ~st.ok THEN st
  ELSE LET n == CHOOSE n \in names : TRUE
       IN remove_each(remove(st, n, mode), names \ {n}, mode)
remove(st, name, mode) ==
  IF name \notin DOMAIN st.store.dataflows THEN st
  ELSE IF mode = "Restrict" /\ used_by(st.store, name) # {} THEN [st EXCEPT !.ok = FALSE]
  ELSE Try(remove_each(st, IF mode = "Cascade" THEN used_by(st.store, name) ELSE {}, mode),
           LAMBDA after :
             [ok |-> TRUE,
              store |-> Store(Without(after.store.dataflows, name),
                              Without(after.store.meta, name)),
              removed |-> Append(after.removed, name), err |-> ""],
           LAMBDA err : st)

\* ------------------------------------------------------------------ handle_command
\* PlannerResult: Ok((SqlResponse, Option<DataflowCommand>)) or Err, a panic
\* of the planner thread, and the store the call leaves behind
NoCommand == <<>>
HandleOk(response, command, store) ==
  [ok |-> TRUE, panic |-> FALSE, response |-> response, command |-> command,
   store |-> store, err |-> ""]
HandleErr(msg, store) ==
  [ok |-> FALSE, panic |-> FALSE, response |-> <<>>, command |-> NoCommand,
   store |-> store, err |-> msg]
HandlePanic(msg, store) ==
  [ok |-> FALSE, panic |-> TRUE, response |-> <<>>, command |-> NoCommand,
   store |-> store, err |-> msg]

\* handle_create_dataflow(stmt) for a CREATE VIEW or CREATE TABLE
handle_create_dataflow(stmt, store, hash_order) ==
  Try(plan_statement(stmt, hash_order),
      LAMBDA dataflow :
        IF ~insert_ok(store, stmt[2])
        THEN HandleErr("dataflow already exists", store)
        ELSE HandleOk(IF stmt[1] = "SQLCreateView" THEN <<"CreatedView">>
                      ELSE <<"CreatedTable">>,
                      <<"CreateDataflow", dataflow.expr, dataflow.typ>>,
                      insert(store, stmt[2],
                             IF stmt[1] = "SQLCreateView" THEN "View" ELSE "Table",
                             dataflow.typ, uses(stmt))),
      LAMBDA err : HandleErr(err, store))

\* the removal loop of handle_drop_dataflow from the k-th name on
RECURSIVE remove_all(_, _, _, _)
remove_all(st, names, k, mode) ==
  IF k > Len(names) \/ ~st.ok THEN st
  ELSE remove_all(remove(st, names[k], mode), names, k + 1, mode)

\* handle_drop_dataflow(stmt); stmt is
\* <<"SQLDrop", object_type, if_exists, names, cascade>>
handle_drop_dataflow(stmt, store) ==
  IF ~stmt[3] /\ \E k \in DOMAIN stmt[4] : stmt[4][k] \notin DOMAIN store.dataflows
  THEN HandleErr("dataflow does not exist", store)
  ELSE LET st == remove_all([ok |-> TRUE, store |-> store, removed |-> <<>>, err |-> ""],
                            stmt[4], 1, RemoveMode(stmt[5]))
       IN IF st.ok
          THEN HandleOk(<<"Dropped", stmt[2]>>, <<"DropDataflows", st.removed>>, st.store)
          ELSE HandleErr("cannot delete: still depended upon", st.store)

\* Datum::from_sql(ast, typ)
DatumOk(datum) == [ok |-> TRUE, datum |-> datum]
DatumErr == [ok |-> FALSE, datum |-> <<>>]
from_sql(ast, typ) ==
  IF ast[1] # "SQLValue" THEN DatumErr
  ELSE LET value == ast[2] IN
       CASE value[1] = "Null" -> IF typ.nullable THEN DatumOk(<<"Null">>) ELSE DatumErr
         [] value[1] = "Long" /\ typ.scalar_type = "Int64" -> DatumOk(<<"Int64", value[2]>>)
         [] value[1] = "Double" /\ typ.scalar_type = "Float64" ->
              DatumOk(<<"Float64", value[2]>>)
         [] value[1] \in {"SingleQuotedString", "NationalStringLiteral"}
              /\ typ.scalar_type = "String" -> DatumOk(<<"String", value[2]>>)
         [] value[1] = "Boolean" /\ typ.scalar_type = "Bool" ->
              DatumOk(<<IF value[2] = "true" THEN "True" ELSE "False">>)
         [] OTHER -> DatumErr

\* columns.iter().position(|name2| name == name2), from 0
position(columns, name) ==
  (CHOOSE k \in DOMAIN columns :
     columns[k] = name /\ \A j \in 1..(k - 1) : columns[j] # name) - 1

\* the VALUES half of handle_insert, given the permutation
insert_values(name, typ, permutation, source, store) ==
  IF source.ctes # <<>> \/ source.order_by # <<>> \/ source.limit # <<>>
  THEN HandleErr("complicated INSERTs are not supported", store)
  ELSE IF source.body[1] # "Values"
  THEN HandleErr("complicated INSERTs are not supported", store)
  ELSE LET values == source.body[2] IN
       IF values = <<>> THEN HandlePanic("assertion failed: !values.is_empty()", store)
       ELSE IF \E r \in DOMAIN values : Len(values[r]) # Len(values[1])
       THEN HandleErr("VALUES lists must all be the same length", store)
       ELSE IF Len(values[1]) # Len(permutation)
       THEN HandleErr("INSERT has a different number of expressions and target columns",
                      store)
       ELSE LET datums == [r \in DOMAIN values |->
                             [i \in DOMAIN permutation |->
                                from_sql(values[r][permutation[i] + 1], typ[i])]]
            IN IF \E r \in DOMAIN values : \E i \in DOMAIN permutation : ~datums[r][i].ok
               THEN HandleErr("cannot insert value", store)
               ELSE HandleOk(<<"Inserted", Len(datums)>>,
                             <<"Insert", name,
                               [r \in DOMAIN datums |->
                                  [row |-> [i \in DOMAIN permutation |-> datums[r][i].datum],
                                   timestamp |-> 0, diff |-> 1]]>>,
                             store)

\* handle_insert(name, columns, source)
handle_insert(name, columns, source, store) ==
  IF name \notin DOMAIN store.dataflows THEN HandleErr("dataflow does not exist", store)
  ELSE IF store.meta[name].kind # "Table"
  THEN HandleErr("Can only insert into tables", store)
  ELSE LET typ == store.dataflows[name]
           expected_columns == [k \in DOMAIN typ |-> typ[k].name]
       IN IF columns = <<>>
          THEN insert_values(name, typ, [k \in DOMAIN typ |-> k - 1], source, store)
          ELSE IF Cardinality(Range(columns)) # Len(columns)
          THEN HandleErr("Duplicate column in INSERT INTO ... COLUMNS", store)
          ELSE IF Cardinality(Range(columns)) # Cardinality(Range(expected_columns))
          THEN HandleErr("Missing column in INSERT INTO ... COLUMNS", store)
          ELSE IF \E k \in DOMAIN expected_columns : expected_columns[k] \notin Range(columns)
          THEN HandlePanic("called Option::unwrap() on a None value", store)
          ELSE insert_values(name, typ,
                             [k \in DOMAIN expected_columns |->
                                position(columns, expected_columns[k])],
                             source, store)

\* the coordinator as constructed; the planner is about to be called
PlannerCoordInit ==
  /\ catalog = AllIds
  /\ pending_writes = <<>>
  /\ write_lock = FALSE
  /\ write_lock_wait_group = <<>>
  /\ lock_waiters = 0
  /\ internal_cmd = <<>>
  /\ retry_tasks = <<>>
  /\ clock \in ClockStarts
  /\ now \in {n \in NowValues : n >= clock}
  /\ write_frontier = [id \in AllIds |-> 0]
  /\ storage_appends = <<>>
  /\ commits = <<>>
  /\ session_lock = [s \in Sessions |-> FALSE]
  /\ session_state = [s \in Sessions |-> "idle"]
  /\ submitted = <<>>
  /\ responses = <<>>
  /\ halted = FALSE
  /\ nevents = 0
coordVars ==
  <<catalog, pending_writes, write_lock, write_lock_wait_group, lock_waiters,
    internal_cmd, retry_tasks, clock, now, write_frontier, storage_appends,
    commits, session_lock, session_state, submitted, responses, halted, nevents>>

PlannerInit ==
  /\ PlannerCoordInit
  /\ dataflows = MockDataflows
  /\ dataflow_meta = MockMeta
  /\ plan_results = <<>>
  /\ \/ \E exprs \in CoalesceInputs :
          plan_call = [fn |-> "try_coalesce_types", arg |-> exprs]
     \/ \E e \in ExprInputs :
          plan_call = [fn |-> "plan_expr", arg |-> e]
     \/ \E e \in BetweenInputs :
          plan_call = [fn |-> "plan_between", arg |-> e]
     \/ \E q \in SetExprInputs :
          plan_call = [fn |-> "plan_set_expr", arg |-> q]
     \/ \E j \in JoinInputs :
          plan_call = [fn |-> "plan_join_operator", arg |-> j]
     \/ \E stmt \in StatementInputs :
          plan_call = [fn |-> "plan_statement", arg |-> stmt]

\* try_coalesce_types(exprs, context)
TryCoalesceTypes ==
  /\ plan_call.fn = "try_coalesce_types"
  /\ plan_results = <<>>
  /\ plan_results' = <<try_coalesce_types(plan_call.arg, "coalesce")>>
  /\ UNCHANGED <<coordVars, dataflows, dataflow_meta, plan_call>>

\* plan_expr(ctx, e, relation_expr) in the scope FROM n
PlanExpr ==
  /\ plan_call.fn = "plan_expr"
  /\ plan_results = <<>>
  /\ plan_results' = <<plan_expr(plan_call.arg, from_source("n", dataflows["n"]))>>
  /\ UNCHANGED <<coordVars, dataflows, dataflow_meta, plan_call>>

\* plan_expr called on a BETWEEN expression, and then on the comparison
\* written out, in the scope FROM n
PlanBetween ==
  /\ plan_call.fn = "plan_between"
  /\ Len(plan_results) < 2
  /\ plan_results' =
       Append(plan_results,
              plan_expr(IF plan_results = <<>> THEN plan_call.arg
                        ELSE BetweenAsComparisons(plan_call.arg),
                        from_source("n", dataflows["n"])))
  /\ UNCHANGED <<coordVars, dataflows, dataflow_meta, plan_call>>

\* plan_set_expr(q)
PlanSetExpr ==
  /\ plan_call.fn = "plan_set_expr"
  /\ plan_results = <<>>
  /\ \E hash_order \in HashOrders :
       plan_results' = <<plan_set_expr(plan_call.arg, hash_order)>>
  /\ UNCHANGED <<coordVars, dataflows, dataflow_meta, plan_call>>

\* plan_join_operator(operator, left, right) of two tables of the catalog
PlanJoinOperator ==
  /\ plan_call.fn = "plan_join_operator"
  /\ plan_results = <<>>
  /\ \E hash_order \in HashOrders :
       plan_results' =
         <<plan_join_operator(plan_call.arg.operator,
                              from_source(plan_call.arg.left, dataflows[plan_call.arg.left]),
                              from_source(plan_call.arg.right, dataflows[plan_call.arg.right]),
                              hash_order)>>
  /\ UNCHANGED <<coordVars, dataflows, dataflow_meta, plan_call>>

\* plan_statement(stmt), called once and then once more on the same statement
\* and catalog; each call builds its own HashSets
PlanStatement ==
  /\ plan_call.fn = "plan_statement"
  /\ Len(plan_results) < 2
  /\ \E hash_order \in HashOrders :
       plan_results' = Append(plan_results, plan_statement(plan_call.arg, hash_order))
  /\ UNCHANGED <<coordVars, dataflows, dataflow_meta, plan_call>>

PlannerNext ==
  \/ TryCoalesceTypes
  \/ PlanExpr
  \/ PlanBetween
  \/ PlanSetExpr
  \/ PlanJoinOperator
  \/ PlanStatement

PlannerSpec == PlannerInit /\ [][PlannerNext]_vars

\* the ladder of try_coalesce_types, lowest first, and a type's place on it
Ladder == <<"Null", "Int32", "Int64", "Float32", "Float64">>
Rank(scalar_type) == CHOOSE k \in DOMAIN Ladder : Ladder[k] = scalar_type
OnLadder(exprs) == \A k \in DOMAIN exprs : exprs[k].typ.scalar_type \in LadderTypes
LadderMax(exprs) ==
  Ladder[CHOOSE m \in DOMAIN Ladder :
           /\ \E k \in DOMAIN exprs : Rank(exprs[k].typ.scalar_type) = m
           /\ \A k \in DOMAIN exprs : Rank(exprs[k].typ.scalar_type) <= m]
\* what the law says of a successful result
CoalescedAsLaw(exprs, result) ==
  /\ result.typ.scalar_type = LadderMax(exprs)
  /\ result.typ.nullable = (\E k \in DOMAIN exprs : exprs[k].typ.nullable)
  /\ Len(result.expr) = Len(exprs)
  /\ \A k \in DOMAIN exprs :
       IF exprs[k].typ.scalar_type \notin {"Null", LadderMax(exprs)}
       THEN result.expr[k] =
              CallUnary(Cast(exprs[k].typ.scalar_type, LadderMax(exprs)), exprs[k].expr)
       ELSE result.expr[k] = exprs[k].expr
\* an Int32 operand under a maximum of Int64
Int32UnderInt64(exprs) ==
  /\ LadderMax(exprs) = "Int64"
  /\ \E k \in DOMAIN exprs : exprs[k].typ.scalar_type = "Int32"

\* C18 as stated. try_coalesce_types law: for every non-empty operand list
\* with all scalar types on the ladder the call succeeds, the result type is
\* the highest type present, its nullability the OR of the operands', each
\* operand that is neither Null nor of the highest type is wrapped in one
\* cast to it, and the others are returned unchanged, in order.
C18_CoalesceLaw ==
  (plan_call.fn = "try_coalesce_types" /\ plan_results # <<>> /\ OnLadder(plan_call.arg)) =>
    /\ plan_results[1].ok
    /\ CoalescedAsLaw(plan_call.arg, plan_results[1])

\* C18, amended. The same law, except that a list with an Int32 operand
\* whose highest type is Int64 fails with the uniform-type error: the call
\* succeeds on every other list over the ladder.
C18_CoalesceLawAmended ==
  (plan_call.fn = "try_coalesce_types" /\ plan_results # <<>> /\ OnLadder(plan_call.arg)) =>
    IF Int32UnderInt64(plan_call.arg)
    THEN ~plan_results[1].ok /\ plan_results[1].err = "does not have uniform type"
    ELSE /\ plan_results[1].ok
         /\ CoalescedAsLaw(plan_call.arg, plan_results[1])

\* a Null operand, a nullable Int64 and a Float32: one cast, two unchanged
C18_Witness ==
  /\ plan_call.fn = "try_coalesce_types"
  /\ plan_results # <<>>
  /\ plan_results[1].ok
  /\ Len(plan_call.arg) = 3
  /\ plan_call.arg[1].typ.scalar_type = "Null"
  /\ plan_call.arg[2].typ.scalar_type = "Int64" /\ plan_call.arg[2].typ.nullable
  /\ plan_call.arg[3].typ.scalar_type = "Float32"
  /\ plan_results[1].expr[2] = CallUnary(Cast("Int64", "Float32"), Column(1))
  /\ plan_results[1].typ = ColumnType(NoName, "Float32", TRUE)

\* the type plan_expr gives an operand in the scope FROM n
OperandType(e) == plan_expr(e, from_source("n", dataflows["n"])).typ

\* C19. A planned `/` or `%` over operands of type Int32 or Int64 has a
\* nullable column type, also when both operands are non-nullable; a planned
\* +, - or * has as nullability the OR of its operands' nullabilities.
C19_IntegerDivModNullable ==
  (plan_call.fn = "plan_expr" /\ plan_results # <<>> /\ plan_results[1].ok) =>
    LET op == plan_call.arg[2]
        ltype == OperandType(plan_call.arg[3])
        rtype == OperandType(plan_call.arg[4])
    IN /\ (op \in {"Divide", "Modulus"}
            /\ ltype.scalar_type \in {"Int32", "Int64"}
            /\ rtype.scalar_type \in {"Int32", "Int64"}) => plan_results[1].typ.nullable
       /\ op \in {"Plus", "Minus", "Multiply"} =>
            plan_results[1].typ.nullable = (ltype.nullable \/ rtype.nullable)

\* the call was plan_set_expr on `L UNION [ALL] R` and has returned
UnionPlanned ==
  /\ plan_call.fn = "plan_set_expr"
  /\ plan_call.arg[1] = "SetOperation"
  /\ plan_call.arg[2] = "Union"
  /\ plan_results # <<>>
\* the types of the columns of one side of the UNION that was planned
SideTypes(side) == plan_set_expr(side, <<>>).typ
SidePlanned(side) == plan_set_expr(side, <<>>).ok

\* C15: planning the same statement twice with plan_statement against the
\* same catalog yields equal dataflows, for every supported statement, views
\* over NATURAL joins on several common columns included.
C15_PlanStatementDeterministic ==
  (plan_call.fn = "plan_statement" /\ Len(plan_results) = 2)
    => plan_results[1] = plan_results[2]

\* C16: `L UNION [ALL] R` is planned successfully only if both sides have the
\* same number of columns and the same scalar type in every position; each
\* output column then has the left side's name, the common scalar type and
\* the nullability (left nullable OR right nullable), and the expression is
\* wrapped in Distinct exactly when ALL is absent.
C16_UnionTyping ==
  (UnionPlanned /\ plan_results[1].ok) =>
    LET all == plan_call.arg[3]
        L == SideTypes(plan_call.arg[4])
        R == SideTypes(plan_call.arg[5])
        out == plan_results[1].typ
    IN /\ SidePlanned(plan_call.arg[4]) /\ SidePlanned(plan_call.arg[5])
       /\ Len(L) = Len(R)
       /\ \A k \in DOMAIN L : L[k].scalar_type = R[k].scalar_type
       /\ Len(out) = Len(L)
       /\ \A k \in DOMAIN out :
            /\ out[k].name = L[k].name
            /\ out[k].scalar_type = L[k].scalar_type
            /\ out[k].nullable = (L[k].nullable \/ R[k].nullable)
       /\ (plan_results[1].expr[1] = "Distinct") = ~all
       /\ (IF all THEN plan_results[1].expr ELSE plan_results[1].expr[2])[1] = "Union"
\* a UNION without ALL was planned whose output column is nullable on the
\* right side's account only
C16_Witness ==
  /\ UnionPlanned
  /\ plan_results[1].ok
  /\ ~plan_call.arg[3]
  /\ ~SideTypes(plan_call.arg[4])[1].nullable
  /\ SideTypes(plan_call.arg[5])[1].nullable
  /\ plan_results[1].typ[1].nullable

Select1 == SelectOne(Value("Long", "1"))
Select1Dot0 == SelectOne(Value("Double", "1.0"))
SelectA == SelectOne(Value("SingleQuotedString", "a"))
\* the UNION [ALL] of the two SELECTs was planned
PlannedUnionOf(left, right) ==
  /\ UnionPlanned
  /\ plan_call.arg[4] = left
  /\ plan_call.arg[5] = right

\* C17 as stated: UNION coalesces across the numeric ladder; SELECT 1 UNION
\* SELECT 1.0 is planned successfully with one column of scalar type Float64
\* that is not nullable, and SELECT 1 UNION SELECT 'a' fails.
C17_UnionCoalesces ==
  /\ PlannedUnionOf(Select1, Select1Dot0) =>
       /\ plan_results[1].ok
       /\ Len(plan_results[1].typ) = 1
       /\ plan_results[1].typ[1].scalar_type = "Float64"
       /\ ~plan_results[1].typ[1].nullable
  /\ PlannedUnionOf(Select1, SelectA) => ~plan_results[1].ok

\* C17, amended: UNION applies no type coalescing; SELECT 1 UNION SELECT 1.0
\* (an Int64 column against a Float64 column) fails with the error that each
\* UNION should have the same column types, as SELECT 1 UNION SELECT 'a' does.
C17_UnionDoesNotCoalesce ==
  \A right \in {Select1Dot0, SelectA} :
    PlannedUnionOf(Select1, right) =>
      /\ ~plan_results[1].ok
      /\ plan_results[1].err = "Each UNION should have the same column types"
\* SELECT 1 UNION SELECT 1.0 was planned
C17_Witness ==
  /\ PlannedUnionOf(Select1, Select1Dot0)
  /\ ~plan_call.arg[3]
  /\ ~plan_results[1].ok

\* the call was plan_join_operator with an outer join and has returned Ok
OuterJoinPlanned ==
  /\ plan_call.fn = "plan_join_operator"
  /\ plan_call.arg.operator[1] \in {"LeftOuter", "RightOuter", "FullOuter"}
  /\ plan_results # <<>>
  /\ plan_results[1].ok
\* the columns of the planned join, one (name, scalar type, nullable) each
Nullabilities(columns) == [k \in DOMAIN columns |-> columns[k].typ.nullable]

\* C20: the columns of an outer join are the left columns and then the right
\* columns; LEFT OUTER makes every right column nullable and keeps the
\* nullability of every left column, RIGHT OUTER is the mirror image, FULL
\* OUTER makes every column nullable; a(x) LEFT JOIN b(y) with x and y not
\* nullable gives the nullabilities false, true.
C20_OuterJoinNullability ==
  /\ OuterJoinPlanned =>
       LET kind == plan_call.arg.operator[1]
           L == dataflows[plan_call.arg.left]
           R == dataflows[plan_call.arg.right]
           out == plan_results[1].rel.columns
       IN /\ Len(out) = Len(L) + Len(R)
          /\ \A k \in DOMAIN L :
               /\ out[k].typ.name = L[k].name
               /\ out[k].typ.scalar_type = L[k].scalar_type
               /\ out[k].typ.nullable = (kind # "LeftOuter" \/ L[k].nullable)
          /\ \A k \in DOMAIN R :
               /\ out[Len(L) + k].typ.name = R[k].name
               /\ out[Len(L) + k].typ.scalar_type = R[k].scalar_type
               /\ out[Len(L) + k].typ.nullable = (kind # "RightOuter" \/ R[k].nullable)
  /\ (OuterJoinPlanned /\ plan_call.arg.operator[1] = "LeftOuter"
        /\ plan_call.arg.left = "a" /\ plan_call.arg.right = "b")
       => Nullabilities(plan_results[1].rel.columns) = <<FALSE, TRUE>>
\* d RIGHT OUTER JOIN c was planned: columns of d that are not nullable in
\* the catalog are nullable in the join, and c's x is still not nullable
C20_Witness ==
  /\ OuterJoinPlanned
  /\ plan_call.arg.operator[1] = "RightOuter"
  /\ plan_call.arg.left = "d"
  /\ plan_call.arg.right = "c"
  /\ Nullabilities(plan_results[1].rel.columns) = <<TRUE, TRUE, TRUE, FALSE, TRUE>>

\* ------------------------------------------------------------------ the drivers of a commit
\* what will lead to a later group_commit: a GroupCommit message in the
\* channel, a sleeping retry task, a Deferred::GroupCommit in the wait FIFO
GroupCommitQueued == \E k \in DOMAIN internal_cmd : internal_cmd[k].type = "GroupCommit"
RetrySleeping == retry_tasks # <<>>
GroupCommitDeferred ==
  \E k \in DOMAIN write_lock_wait_group : write_lock_wait_group[k].kind = "GroupCommit"

\* C22. No stranded writes: between two message handlings, whenever
\* pending_writes is non-empty a driver of a later commit is outstanding: a
\* GroupCommit message in the internal channel, a sleeping retry task that
\* will post one, or a Deferred::GroupCommit in the write-lock wait FIFO
\* (whose background task is waiting for the lock or has posted its
\* WriteLockGrant).
C22_NoStrandedWrites ==
  (CoordIdle /\ pending_writes # <<>>) =>
    \/ GroupCommitQueued
    \/ RetrySleeping
    \/ /\ GroupCommitDeferred
       /\ lock_waiters + Cardinality(GrantOwners) >= Len(write_lock_wait_group)

\* pending writes whose only driver is the deferred group commit
C22_Witness ==
  /\ CoordIdle
  /\ pending_writes # <<>>
  /\ ~GroupCommitQueued
  /\ ~RetrySleeping
  /\ GroupCommitDeferred

HandlesGroupCommit ==
  /\ CoordIdle
  /\ internal_cmd # <<>>
  /\ Head(internal_cmd).type = "GroupCommit"
  /\ internal_cmd' = Tail(internal_cmd)
\* the step started one more execution of group_commit
StartsGroupCommit ==
  /\ Len(commits') = Len(commits) + 1
  /\ commits'[Len(commits')].kind = "group_commit"
  /\ commits'[Len(commits')].phase = "step"
  /\ \A i \in DOMAIN commits : commits'[i] = commits[i]

\* C24. try_group_commit with pending_writes non-empty and peek_local_ts() <=
\* now runs group_commit if and only if some pending write carries the lock
\* guard or the non-blocking acquire of the write lock succeeds; otherwise it
\* appends exactly one Deferred::GroupCommit at the tail of the wait FIFO,
\* issues no append, does not step the clock and leaves pending_writes as it is.
C24_LockDecision ==
  [][(HandlesGroupCommit /\ pending_writes # <<>> /\ clock <= now) =>
       IF PendingOwners # {} \/ ~write_lock
       THEN /\ StartsGroupCommit
            /\ write_lock_wait_group' = write_lock_wait_group
            /\ lock_waiters' = lock_waiters
       ELSE /\ write_lock_wait_group' = Append(write_lock_wait_group, DeferredGroupCommit)
            /\ commits' = commits
            /\ storage_appends' = storage_appends
            /\ clock' = clock
            /\ pending_writes' = pending_writes
            /\ write_lock' = write_lock]_vars

\* a group commit was deferred behind a session that holds the lock and has
\* not submitted; no commit has started and nothing was appended
C24_Witness ==
  /\ GroupCommitDeferred
  /\ pending_writes # <<>>
  /\ PendingOwners = {}
  /\ SessionOwners # {}
  /\ clock <= now
  /\ commits = <<>>
  /\ storage_appends = <<>>

\* the WriteLockGrant messages in the channel after the step
GrantOwnersAfter ==
  {k \in DOMAIN internal_cmd' : internal_cmd'[k].type = "WriteLockGrant"}

\* C25. Wait-FIFO grants: every defer_write appends its Deferred at the tail
\* of write_lock_wait_group and starts one background task; a WriteLockGrant
\* is posted only by such a task in the step in which it acquires the free
\* lock, so the tasks still waiting plus the grants in the channel always
\* number the waiters in the FIFO (never more grants than defer_write calls);
\* while a grant is in the channel the lock is held on its account alone; and
\* each grant re-drives the head of the FIFO, in the order of deferral.
C25_WaitFifoGrants ==
  /\ [](lock_waiters + Cardinality(GrantOwners) = Len(write_lock_wait_group))
  /\ [](GrantOwners # {} => write_lock /\ OwnerCount = 1)
  /\ [][Len(write_lock_wait_group') > Len(write_lock_wait_group) =>
          /\ \E d \in {DeferredGroupCommit} \cup {DeferredPlan(s) : s \in Sessions} :
               write_lock_wait_group' = Append(write_lock_wait_group, d)
          /\ lock_waiters' = lock_waiters + 1
          /\ Cardinality(GrantOwnersAfter) = Cardinality(GrantOwners)]_vars
  /\ [][Cardinality(GrantOwnersAfter) > Cardinality(GrantOwners) =>
          /\ internal_cmd' = Append(internal_cmd, WriteLockGrantMsg)
          /\ ~write_lock /\ write_lock'
          /\ lock_waiters' = lock_waiters - 1
          /\ write_lock_wait_group' = write_lock_wait_group]_vars
  /\ [][Len(write_lock_wait_group') < Len(write_lock_wait_group) =>
          /\ Head(internal_cmd).type = "WriteLockGrant"
          /\ internal_cmd' = Tail(internal_cmd)
          /\ write_lock_wait_group' = Tail(write_lock_wait_group)
          /\ LET ready == Head(write_lock_wait_group)
             IN IF ready.kind = "Plan"
                THEN /\ session_lock'[ready.session]
                     /\ session_state'[ready.session] = "idle"
                ELSE pending_writes # <<>> => StartsGroupCommit]_vars

\* two waiters in the FIFO, a group commit deferred first and a plan after
\* it; the first one's task has the lock and its grant is in the channel, the
\* second one's task is still waiting
C25_Witness ==
  /\ Len(write_lock_wait_group) = 2
  /\ write_lock_wait_group[1].kind = "GroupCommit"
  /\ write_lock_wait_group[2].kind = "Plan"
  /\ Cardinality(GrantOwners) = 1
  /\ lock_waiters = 1


\* C27. Write critical section guard: a session comes to hold the write lock
\* from guard_write_critical_section only by a non-blocking grant of the free
\* lock (or later by the WriteLockGrant that re-drives its deferred plan);
\* when the grant fails the plan is pushed as Deferred::Plan at the tail of
\* the wait FIFO and not executed: the session still holds no lock, the lock
\* and its owners are unchanged and nothing is submitted; a session that
\* already holds the lock is never deferred and makes no acquisition.
C27_WriteCriticalSectionGuard ==
  /\ [](\A s \in Sessions : session_state[s] = "deferred" =>
          /\ ~session_lock[s]
          /\ \E k \in DOMAIN write_lock_wait_group :
               write_lock_wait_group[k] = DeferredPlan(s))
  /\ [][\A s \in Sessions :
          (session_state[s] = "idle" /\ session_state'[s] = "deferred") =>
            /\ ~session_lock[s]
            /\ write_lock
            /\ write_lock_wait_group' = Append(write_lock_wait_group, DeferredPlan(s))
            /\ session_lock' = session_lock
            /\ write_lock' = write_lock
            /\ pending_writes' = pending_writes
            /\ submitted' = submitted
            /\ commits' = commits]_vars
  /\ [][\A s \in Sessions :
          (session_state[s] = "idle" /\ ~session_lock[s] /\ session_lock'[s]) =>
            /\ ~write_lock
            /\ write_lock'
            /\ session_state'[s] = "idle"
            /\ write_lock_wait_group' = write_lock_wait_group
            /\ lock_waiters' = lock_waiters]_vars
  /\ [][\A s \in Sessions :
          (session_state[s] = "idle" /\ session_lock[s] /\ session_lock'[s]) =>
            /\ write_lock' = write_lock
            /\ session_state'[s] = "idle"
            /\ \A k \in DOMAIN write_lock_wait_group' :
                 write_lock_wait_group'[k] # DeferredPlan(s)]_vars

\* one session holds the lock it was granted and is asked to guard a second
\* plan, while the other session's plan waits deferred
C27_Witness ==
  \E s, t \in Sessions :
    /\ s # t
    /\ session_lock[s]
    /\ session_state[s] = "idle"
    /\ nevents >= 3
    /\ session_state[t] = "deferred"
    /\ write_lock_wait_group = <<DeferredPlan(t)>>
    /\ pending_writes = <<>>


\* ------------------------------------------------------------------ liveness
\* the wall clock catches up with the local write timeline
WallClockReaches ==
  /\ ~halted
  /\ now < peek_local_ts(clock)
  /\ now' = peek_local_ts(clock)
  /\ UNCHANGED <<catalog, pending_writes, write_lock, write_lock_wait_group,
                 lock_waiters, internal_cmd, retry_tasks, clock, write_frontier,
                 storage_appends, commits, session_lock, session_state, submitted,
                 responses, halted, nevents>>
  /\ UNCHANGED planVars

\* the coordinator with a storage layer that acknowledges every append
LiveNext ==
  \/ \E s \in Sessions : GuardWriteCriticalSection(s)
  \/ \E s \in Sessions : \E w \in WriteChoices(s) : submit_write(s, w)
  \/ \E s \in Sessions : SessionRelease(s)
  \/ HandleGroupCommit
  \/ HandleWriteLockGrant
  \/ advance_local_inputs
  \/ AdvanceTimelines
  \/ \E d \in DdlChoices : Ddl(d.dropped, d.updates)
  \/ \E i \in DOMAIN commits : GroupCommitAppend(i)
  \/ \E i \in DOMAIN commits : BuiltinAppend(i)
  \/ \E i \in DOMAIN commits : StorageAck(i, "ok")
  \/ \E i \in DOMAIN commits : GroupCommitRespond(i)
  \/ \E i \in DOMAIN commits : BuiltinDone(i)
  \/ \E k \in DOMAIN retry_tasks : RetryWake(k)
  \/ LockTaskAcquire
  \/ \E n \in NowValues : WallClock(n)
  \/ WallClockReaches

\* send_builtin_table_updates resumes after its await: weak fairness of
\* BuiltinAppend written out, the action being enabled exactly when a builtin
\* commit is at its clock step
BuiltinAppendEnabled ==
  /\ ~halted
  /\ \E i \in DOMAIN commits :
       commits[i].kind = "builtin" /\ commits[i].phase = "step"
BuiltinAppendFair ==
  \/ []<>(~BuiltinAppendEnabled)
  \/ []<><<\E i \in DOMAIN commits : BuiltinAppend(i)>>_vars

\* internal messages are handled, sleeping and lock tasks run, the commit in
\* progress resumes after each await, storage acknowledges, a session that
\* holds the lock gives it up, and the wall clock reaches the peeked timestamp
LiveFairness ==
  /\ WF_vars(HandleGroupCommit)
  /\ WF_vars(HandleWriteLockGrant)
  /\ WF_vars(advance_local_inputs)
  /\ WF_vars(\E k \in DOMAIN retry_tasks : RetryWake(k))
  /\ WF_vars(LockTaskAcquire)
  /\ WF_vars(\E i \in DOMAIN commits : GroupCommitAppend(i))
  /\ BuiltinAppendFair
  /\ WF_vars(\E i \in DOMAIN commits : StorageAck(i, "ok"))
  /\ WF_vars(\E i \in DOMAIN commits : GroupCommitRespond(i))
  /\ WF_vars(\E i \in DOMAIN commits : BuiltinDone(i))
  /\ WF_vars(\E s \in Sessions : SessionRelease(s))
  /\ WF_vars(WallClockReaches)

LiveSpec == Init /\ [][LiveNext]_vars /\ LiveFairness

\* C23. Liveness of writes: under the fairness of LiveSpec every submitted
\* write transaction is eventually drained by a group commit and its response
\* is sent.
C23_WritesEventuallyAnswered ==
  \A t \in 1..MaxEvents :
    (Len(submitted) >= t) ~> (t \in Range(responses))

\* two submitted writes, one with the lock guard and one without, were each
\* drained by a finished group commit and answered
C23_Witness ==
  /\ Len(submitted) = 2
  /\ submitted[1].write_lock_guard # submitted[2].write_lock_guard
  /\ Range(responses) = {1, 2}
  /\ \A i \in DOMAIN commits : commits[i].phase = "done"


\* C21. BETWEEN law: in the scope FROM n, planning x BETWEEN low AND high
\* gives the same result, the same (ScalarExpr, ColumnType) or the same
\* failure, as planning x >= low AND x <= high, and x NOT BETWEEN low AND high
\* the same as x < low OR x > high.
C21_BetweenLaw ==
  (plan_call.fn = "plan_between" /\ Len(plan_results) = 2) =>
    plan_results[1] = plan_results[2]

\* a BETWEEN over a column and two literals of another numeric type planned
\* successfully, with casts, both ways
C21_Witness ==
  /\ plan_call.fn = "plan_between"
  /\ Len(plan_results) = 2
  /\ plan_results[1].ok
  /\ plan_call.arg[2] = <<"SQLIdentifier", "i">>
  /\ plan_call.arg[3] = <<"SQLValue", <<"Double", "1.0">>>>
  /\ plan_call.arg[5]


\* the body under the let bindings of a planned join, and the relations it
\* unions
RECURSIVE let_body(_)
let_body(e) == IF e[1] = "Let" THEN let_body(e[4]) ELSE e
RECURSIVE union_operands(_)
union_operands(e) ==
  IF e[1] = "Union" THEN union_operands(e[2]) \cup union_operands(e[3]) ELSE {e}

\* C28. A planned FULL OUTER join is the inner join (both) unioned with the
\* nullable extension of both missing sides: the rows of the left input
\* without a match and the rows of the right input without a match.
C28_FullOuterBothSides ==
  (OuterJoinPlanned /\ plan_call.arg.operator[1] = "FullOuter") =>
    LET operands == union_operands(let_body(plan_results[1].rel.relation_expr))
    IN /\ Local("both") \in operands
       /\ <<"LeftOuter", Local("both"), Local("left")>> \in operands
       /\ <<"RightOuter", Local("both"), Local("right")>> \in operands


\* ------------------------------------------------------------------ statements handled one after another
\* CREATE VIEW and CREATE TABLE statements: views over a table and over a
\* view, a name already taken, a table with a column type that is refused
SelectAllFrom(name) == Query(Select(<<<<"Wildcard">>>>, <<Table(name)>>))
Column2(name, data_type) == [name |-> name, data_type |-> data_type]
CreateInputs ==
  {<<"SQLCreateView", "v", <<>>, SelectAllFrom("a"), <<>>>>,
   <<"SQLCreateView", "w", <<>>, SelectAllFrom("v"), <<>>>>,
   <<"SQLCreateView", "a", <<>>, SelectAllFrom("b"), <<>>>>,
   <<"SQLCreateTable", "t", <<Column2("p", "Int"), Column2("q", "Text")>>, <<>>, <<>>, FALSE>>,
   <<"SQLCreateTable", "t", <<Column2("p", "Boolean")>>, <<>>, <<>>, FALSE>>}
\* DROP of one name or two, with and without IF EXISTS and CASCADE
DropInputs ==
  {<<"SQLDrop", "Table", if_exists, names, cascade>> :
     if_exists \in BOOLEAN, cascade \in BOOLEAN,
     names \in {<<"a">>, <<"v">>, <<"b", "a">>, <<"a", "b">>, <<"b", "zz">>}}
\* INSERT INTO name (columns) VALUES rows
InsertRows ==
  {<<<<Value("Long", "1"), Value("Long", "2")>>>>,
   <<<<Value("Long", "1"), Value("Long", "2")>>, <<Value("Long", "2"), Value("Null", "")>>>>,
   <<<<Value("Long", "1")>>>>,
   <<<<Value("Long", "1"), Value("SingleQuotedString", "a")>>>>}
InsertColumns ==
  {<<>>, <<"x", "y">>, <<"y", "x">>, <<"x", "x">>, <<"x">>, <<"x", "z">>, <<"x", "y", "z">>}
InsertInputs ==
  {<<"SQLInsert", name, columns, Query(<<"Values", rows>>)>> :
     name \in {"c", "v", "zz"}, columns \in InsertColumns, rows \in InsertRows}

CatalogInit ==
  /\ PlannerCoordInit
  /\ dataflows = MockDataflows
  /\ dataflow_meta = MockMeta
  /\ plan_call = [fn |-> "handle_command", arg |-> <<>>]
  /\ plan_results = <<>>

\* handle_command(sql) returned `result` for the one statement stmt
Handled(stmt, result) ==
  /\ plan_call' = [fn |-> "handle_command", arg |-> stmt]
  /\ plan_results' = <<result>>
  /\ dataflows' = result.store.dataflows
  /\ dataflow_meta' = result.store.meta
  /\ nevents' = nevents + 1
  /\ UNCHANGED <<catalog, pending_writes, write_lock, write_lock_wait_group,
                 lock_waiters, internal_cmd, retry_tasks, clock, now, write_frontier,
                 storage_appends, commits, session_lock, session_state, submitted,
                 responses, halted>>

\* handle_statement: CREATE VIEW / CREATE TABLE
HandleCreateDataflow ==
  /\ plan_call.fn = "handle_command"
  /\ nevents < MaxEvents
  /\ \E stmt \in CreateInputs : \E hash_order \in HashOrders :
       Handled(stmt, handle_create_dataflow(stmt, Store(dataflows, dataflow_meta),
                                            hash_order))

\* handle_statement: DROP
HandleDropDataflow ==
  /\ plan_call.fn = "handle_command"
  /\ nevents < MaxEvents
  /\ \E stmt \in DropInputs :
       Handled(stmt, handle_drop_dataflow(stmt, Store(dataflows, dataflow_meta)))

\* handle_statement: INSERT
HandleInsert ==
  /\ plan_call.fn = "handle_command"
  /\ nevents < MaxEvents
  /\ \E stmt \in InsertInputs :
       Handled(stmt, handle_insert(stmt[2], stmt[3], stmt[4],
                                   Store(dataflows, dataflow_meta)))

CatalogNext ==
  \/ HandleCreateDataflow
  \/ HandleDropDataflow
  \/ HandleInsert

CatalogSpec == CatalogInit /\ [][CatalogNext]_vars


\* C29. Failed statements leave the catalog unchanged: when handle_command
\* returns an error (the plan fails, the name is already taken, a named
\* dataflow is missing, or a DROP of several names fails at a later name in
\* restrict mode) the store is as it was before the call and no
\* DataflowCommand is emitted; a command is emitted only by a call that
\* succeeds, together with the store mutation it reports.
C29_FailedStatementLeavesCatalog ==
  [][(plan_call'.fn = "handle_command" /\ nevents' = nevents + 1) =>
       LET result == plan_results'[1]
           command == result.command
       IN /\ ~result.ok =>
               /\ dataflows' = dataflows
               /\ dataflow_meta' = dataflow_meta
               /\ command = NoCommand
          /\ command # NoCommand =>
               /\ result.ok
               /\ CASE command[1] = "CreateDataflow" ->
                         /\ plan_call'.arg[2] \notin DOMAIN dataflows
                         /\ DOMAIN dataflows' = DOMAIN dataflows \cup {plan_call'.arg[2]}
                    [] command[1] = "DropDataflows" ->
                         /\ Range(command[2]) \subseteq DOMAIN dataflows
                         /\ DOMAIN dataflows' = DOMAIN dataflows \ Range(command[2])
                    [] OTHER -> dataflows' = dataflows]_vars


\* the INSERT that was handled names a table of the store and lists columns
InsertHandled ==
  /\ plan_call.fn = "handle_command"
  /\ plan_results # <<>>
  /\ plan_call.arg[1] = "SQLInsert"
  /\ plan_call.arg[2] \in DOMAIN dataflows
  /\ dataflow_meta[plan_call.arg[2]].kind = "Table"
  /\ plan_call.arg[3] # <<>>
\* the column list names every column of the table once and nothing else
IsPermutation(columns, typ) ==
  /\ Len(columns) = Len(typ)
  /\ \A k \in DOMAIN typ : \E j \in DOMAIN columns : columns[j] = typ[k].name
  /\ \A i, j \in DOMAIN columns : columns[i] = columns[j] => i = j

\* C30. INSERT column permutation: with a column list that is a permutation
\* of the table's column names, a successful INSERT emits one tuple per VALUES
\* row, with diff 1, whose i-th datum is the literal supplied for the table's
\* i-th column, and answers with the number of rows; a column list that is not
\* a permutation (a duplicate, a missing or an unknown name) is rejected with
\* an error and no Insert command.
C30_InsertColumnPermutation ==
  InsertHandled =>
    LET result == plan_results[1]
        columns == plan_call.arg[3]
        values == plan_call.arg[4].body[2]
        typ == dataflows[plan_call.arg[2]]
        supplied(r, i) == values[r][CHOOSE j \in DOMAIN columns : columns[j] = typ[i].name]
    IN IF IsPermutation(columns, typ)
       THEN result.ok =>
              /\ result.response = <<"Inserted", Len(values)>>
              /\ result.command[1] = "Insert"
              /\ Len(result.command[3]) = Len(values)
              /\ \A r \in DOMAIN values :
                   /\ result.command[3][r].diff = 1
                   /\ \A i \in DOMAIN typ :
                        result.command[3][r].row[i] = from_sql(supplied(r, i), typ[i]).datum
       ELSE /\ ~result.ok
            /\ ~result.panic
            /\ result.command = NoCommand
====
